---- MODULE Spec2Model ----
(***************************************************************************)
(* Model of the docker-checkpoint tool (main.go): checkpoint of a running  *)
(* Docker container with CRIU and restore into a re-created container.     *)
(* The container runtime, the CRIU engine and the filesystem are the       *)
(* environment; every call the tool makes to them is a step of the model.  *)
(***************************************************************************)
EXTENDS Integers, Sequences, FiniteSets, TLC

\* ------------------------------------------------------------------ bounds
MaxEvents == 4

\* ------------------------------------------------------- program constants
ShortIdLen == 12
FullIdLen == 64

\* Processes running the tool.  Spec runs one of them.
Procs == {1, 2}
MainProc == CHOOSE p \in Procs : \A q \in Procs : p <= q

\* ------------------------------------------------------------ string tools
Twice(h, r) == h \o h \o r
RECURSIVE Rep(_, _)
Rep(s, k) == IF k <= 0 THEN "" ELSE Twice(Rep(s, k \div 2), IF k % 2 = 1 THEN s ELSE "")

HasPrefix(s, pre) == Len(s) >= Len(pre) /\ SubSeq(s, 1, Len(pre)) = pre

\* strings.TrimPrefix
TrimPrefix(s, pre) == IF HasPrefix(s, pre) THEN SubSeq(s, Len(pre) + 1, Len(s)) ELSE s

\* true iff sub occurs in s as a contiguous run of characters
Contains(s, sub) ==
    \E i \in 1..(Len(s) - Len(sub) + 1) : SubSeq(s, i, i + Len(sub) - 1) = sub

\* filepath.Join: empty elements are ignored, the rest joined with "/"
RECURSIVE JoinFrom(_, _)
JoinFrom(elems, i) ==
    IF i > Len(elems) THEN ""
    ELSE LET rest == JoinFrom(elems, i + 1)
         IN  IF elems[i] = "" THEN rest
             ELSE IF rest = "" THEN elems[i]
             ELSE elems[i] \o "/" \o rest
filepathJoin(elems) == JoinFrom(elems, 1)

\* fmt.Sprintf("%s/%s/%s", a, b, c)
SprintfPath(a, b, c) == a \o "/" \o b \o "/" \o c

\* fmt.Errorf(msg + ": %w", err)
Errorf(msg, err) == msg \o ": " \o err

\* ---------------------------------------------------------- encoding/json
\* printable ASCII below and above the grave accent (code 96)
AsciiLow == " !\"#$%&'()*+,-./0123456789:;<=>?@ABCDEFGHIJKLMNOPQRSTUVWXYZ[\\]^_"
AsciiHigh == "abcdefghijklmnopqrstuvwxyz{|}~"

CharAt(s, i) == SubSeq(s, i, i)

\* code point of every printable ASCII character but the grave accent
CodePoint ==
    [c \in {CharAt(AsciiLow, k) : k \in 1..Len(AsciiLow)} \cup
           {CharAt(AsciiHigh, k) : k \in 1..Len(AsciiHigh)} |->
        IF \E k \in 1..Len(AsciiLow) : CharAt(AsciiLow, k) = c
        THEN 31 + CHOOSE k \in 1..Len(AsciiLow) : CharAt(AsciiLow, k) = c
        ELSE 96 + CHOOSE k \in 1..Len(AsciiHigh) : CharAt(AsciiHigh, k) = c]

\* code point of a printable ASCII character, 0 for any other
CharCode(c) == IF c \in DOMAIN CodePoint THEN CodePoint[c] ELSE 0

RECURSIVE StrLess(_, _)
StrLess(a, b) ==
    IF b = "" THEN FALSE
    ELSE IF a = "" THEN TRUE
    ELSE IF CharAt(a, 1) = CharAt(b, 1) THEN StrLess(SubSeq(a, 2, Len(a)), SubSeq(b, 2, Len(b)))
    ELSE CharCode(CharAt(a, 1)) < CharCode(CharAt(b, 1))

\* encoding/json writes the keys of a map in sorted order
RECURSIVE Insert(_, _)
Insert(k, keys) ==
    IF keys = <<>> THEN <<k>>
    ELSE IF StrLess(k, Head(keys)) THEN <<k>> \o keys
    ELSE <<Head(keys)>> \o Insert(k, Tail(keys))

RECURSIVE SortedKeys(_)
SortedKeys(S) ==
    IF S = {} THEN <<>>
    ELSE LET k == CHOOSE x \in S : TRUE
         IN  Insert(k, SortedKeys(S \ {k}))

HexDigits == "0123456789abcdef"
Hex2(n) == CharAt(HexDigits, (n \div 16) + 1) \o CharAt(HexDigits, (n % 16) + 1)

\* an encoder that writes the backslash as it is
EscapeChar_rawBackslash(c) ==
    IF c = "\"" THEN "\\\""
    ELSE IF c = "\n" THEN "\\n"
    ELSE IF c = "\r" THEN "\\r"
    ELSE IF c = "\t" THEN "\\t"
    ELSE IF c \in {"<", ">", "&"} THEN "\\u00" \o Hex2(CharCode(c))
    ELSE c

\* what json.Encoder writes for one character (HTML escaping is on by default)
EscapeChar(c) ==
    IF c = "\"" THEN "\\\""
    ELSE IF c = "\\" THEN "\\\\"
    ELSE IF c = "\n" THEN "\\n"
    ELSE IF c = "\r" THEN "\\r"
    ELSE IF c = "\t" THEN "\\t"
    ELSE IF c \in {"<", ">", "&"} THEN "\\u00" \o Hex2(CharCode(c))
    ELSE c

\* the characters the encoder escapes, JSON white space, and the characters that
\* end a run of plain characters inside a JSON string
EscapedChars == {"\"", "\\", "\n", "\r", "\t", "<", ">", "&"}
SpaceChars == {" ", "\n", "\t", "\r"}
SpecialChars == {"\"", "\\", "\n", "\r", "\t"}

\* the first index in lo..hi whose character is in set S (in = TRUE) or is not in
\* S (in = FALSE), hi + 1 when there is none: searched in windows of doubling
\* width w, so that the work grows with the distance and not with hi - lo
Min(a, b) == IF a < b THEN a ELSE b
FirstIn(t, S, in, lo, top) ==
    CHOOSE j \in lo..(top + 1) :
        /\ j = top + 1 \/ (CharAt(t, j) \in S) = in
        /\ \A k \in lo..(j - 1) : (CharAt(t, k) \in S) # in

RECURSIVE FirstFrom(_, _, _, _, _, _), FirstOr(_, _, _, _, _, _, _)
FirstFrom(t, S, in, lo, hi, w) ==
    FirstOr(FirstIn(t, S, in, lo, Min(hi, lo + w - 1)), t, S, in, Min(hi, lo + w - 1), hi, w)
FirstOr(j, t, S, in, top, hi, w) ==
    IF j <= top \/ top = hi THEN j ELSE FirstFrom(t, S, in, top + 1, hi, 2 * w)

First(t, S, in, lo, hi) == IF lo > hi THEN hi + 1 ELSE FirstFrom(t, S, in, lo, hi, 8)

RECURSIVE EscapeFrom(_, _), EscapeAt(_, _, _)
EscapeFrom(s, i) == EscapeAt(s, i, First(s, EscapedChars, TRUE, i, Len(s)))
EscapeAt(s, i, j) ==
    IF j > Len(s) THEN SubSeq(s, i, Len(s))
    ELSE SubSeq(s, i, j - 1) \o EscapeChar(CharAt(s, j)) \o EscapeFrom(s, j + 1)

EncodeString(s) == "\"" \o EscapeFrom(s, 1) \o "\""

\* the members of an object, one per line: keys in sorted order, vals[k] the
\* encoded value of key k
EncodeMembers(keys, vals, indent) ==
    LET from[i \in 1..(Len(keys) + 1)] ==
            IF i > Len(keys) THEN ""
            ELSE indent \o EncodeString(keys[i]) \o ": " \o vals[keys[i]]
                 \o (IF i < Len(keys) THEN "," ELSE "") \o "\n" \o from[i + 1]
    IN  from[1]

EncodeStringMap(m, indent) ==
    IF DOMAIN m = {} THEN "{}"
    ELSE "{\n" \o EncodeMembers(SortedKeys(DOMAIN m), [k \in DOMAIN m |-> EncodeString(m[k])],
                                indent \o "  ") \o indent \o "}"

\* json.Encoder.Encode of the metadata map: namespaces is a map[string]string,
\* every other value a string; keys sorted, two-space indent, final newline
Encode(metadata) ==
    "{\n" \o EncodeMembers(SortedKeys(DOMAIN metadata),
                           [k \in DOMAIN metadata |->
                               IF k = "namespaces" THEN EncodeStringMap(metadata[k], "  ")
                               ELSE EncodeString(metadata[k])],
                           "  ") \o "}\n"

ParseFail == [ok |-> FALSE, val |-> <<>>, pos |-> 0]

\* the index of the first character at or after i that is not JSON white space
SkipSpace(t, i) == First(t, SpaceChars, FALSE, i, Len(t))

HexVal(c) ==
    IF \E k \in 1..Len(HexDigits) : CharAt(HexDigits, k) = c
    THEN (CHOOSE k \in 1..Len(HexDigits) : CharAt(HexDigits, k) = c) - 1
    ELSE -1

\* the character of a \uXXXX escape, "" when the model has no such character
CharOf(code) ==
    IF code >= 32 /\ code < 96 THEN CharAt(AsciiLow, code - 31)
    ELSE IF code > 96 /\ code <= 126 THEN CharAt(AsciiHigh, code - 96)
    ELSE IF code = 10 THEN "\n" ELSE IF code = 13 THEN "\r" ELSE IF code = 9 THEN "\t"
    ELSE ""

Unescape(e) ==
    IF e = "n" THEN "\n" ELSE IF e = "r" THEN "\r" ELSE IF e = "t" THEN "\t"
    ELSE IF e \in {"\"", "\\", "/"} THEN e
    ELSE ""

\* a JSON string from the character after its opening quote
HexCode(t, j) ==
    4096 * HexVal(CharAt(t, j)) + 256 * HexVal(CharAt(t, j + 1))
    + 16 * HexVal(CharAt(t, j + 2)) + HexVal(CharAt(t, j + 3))

RECURSIVE ScanString(_, _, _), ScanAt(_, _, _, _)
ScanString(t, i, acc) == ScanAt(t, i, acc, First(t, SpecialChars, TRUE, i, Len(t)))
ScanAt(t, i, acc, j) ==
    IF j > Len(t) THEN ParseFail
    ELSE IF CharAt(t, j) = "\"" THEN [ok |-> TRUE, val |-> acc \o SubSeq(t, i, j - 1), pos |-> j + 1]
    ELSE IF CharAt(t, j) # "\\" THEN ParseFail
    ELSE IF j + 1 > Len(t) THEN ParseFail
    ELSE IF CharAt(t, j + 1) = "u"
    THEN IF j + 5 > Len(t) \/ \E k \in 2..5 : HexVal(CharAt(t, j + k)) < 0
         THEN ParseFail
         ELSE IF CharOf(HexCode(t, j + 2)) = "" THEN ParseFail
         ELSE ScanString(t, j + 6, acc \o SubSeq(t, i, j - 1) \o CharOf(HexCode(t, j + 2)))
    ELSE IF Unescape(CharAt(t, j + 1)) = "" THEN ParseFail
    ELSE ScanString(t, j + 2, acc \o SubSeq(t, i, j - 1) \o Unescape(CharAt(t, j + 1)))

\* a JSON value (a string or an object) from position i; one member of an object
\* from the quote of its key: key, colon, value
RECURSIVE ParseValue(_, _), ValueAt(_, _), ParseObject(_, _), ParseMember(_, _),
          MemberKey(_, _), MemberColon(_, _, _), MemberValue(_, _)
ParseValue(t, i) == ValueAt(t, SkipSpace(t, i))
ValueAt(t, j) ==
    IF j > Len(t) THEN ParseFail
    ELSE IF CharAt(t, j) = "\"" THEN ScanString(t, j + 1, "")
    ELSE IF CharAt(t, j) = "{" THEN ParseObject(t, SkipSpace(t, j + 1))
    ELSE ParseFail
ParseMember(t, j) ==
    IF j > Len(t) \/ CharAt(t, j) # "\"" THEN ParseFail
    ELSE MemberKey(t, ScanString(t, j + 1, ""))
MemberKey(t, key) ==
    IF ~key.ok THEN ParseFail ELSE MemberColon(t, key.val, SkipSpace(t, key.pos))
MemberColon(t, k, c) ==
    IF c > Len(t) \/ CharAt(t, c) # ":" THEN ParseFail
    ELSE MemberValue(k, ParseValue(t, c + 1))
MemberValue(k, v) ==
    IF ~v.ok THEN ParseFail ELSE [ok |-> TRUE, val |-> (k :> v.val), pos |-> v.pos]

\* the members of an object up to its closing brace: after a member comes a comma
\* and the rest, or the brace; of two members with one key the later one stays
WithRest(m, rest) ==
    IF ~rest.ok THEN ParseFail
    ELSE [ok |-> TRUE, val |-> rest.val @@ m.val, pos |-> rest.pos]
AfterMember(t, m, e, members) ==
    IF e > Len(t) THEN ParseFail
    ELSE IF CharAt(t, e) = "}" THEN [m EXCEPT !.pos = e + 1]
    ELSE IF CharAt(t, e) = "," THEN WithRest(m, members[SkipSpace(t, e + 1)])
    ELSE ParseFail
MemberEnd(t, m, members) ==
    IF ~m.ok THEN ParseFail ELSE AfterMember(t, m, SkipSpace(t, m.pos), members)
ParseObject(t, k) ==
    LET members[j \in 1..(Len(t) + 1)] == MemberEnd(t, ParseMember(t, j), members)
    IN  IF k <= Len(t) /\ CharAt(t, k) = "}" THEN [ok |-> TRUE, val |-> <<>>, pos |-> k + 1]
        ELSE members[k]

\* json.Unmarshal(data, &metadata) with metadata a map[string]interface{}
UnmarshalResult(data, j, r) ==
    IF r.ok /\ SkipSpace(data, r.pos) > Len(data)
    THEN [err |-> "", metadata |-> r.val]
    ELSE [err |-> IF j > Len(data) THEN "unexpected end of JSON input" ELSE "invalid character",
          metadata |-> <<>>]
UnmarshalAt(data, j) ==
    UnmarshalResult(data, j, IF j <= Len(data) /\ CharAt(data, j) = "{" THEN ValueAt(data, j)
                             ELSE ParseFail)
Unmarshal(data) == UnmarshalAt(data, SkipSpace(data, 1))

\* --------------------------------------------------------- value domains
HexDigit == <<"1", "2", "3", "4", "5", "6", "7", "8", "9", "a", "b", "c">>

\* process ids: of the init process of the n-th container the environment runs,
\* and of the process tree the engine resurrects when n containers exist
InitPid(n) == n
RestoredPid(n) == n + FullIdLen

\* the n-th container ID the runtime hands out
MkId(n) == Rep(HexDigit[n], ShortIdLen) \o Rep("f", FullIdLen - ShortIdLen)

\* containers the environment may run: name, cgroup parent and runtime
Profiles ==
    {[name |-> "web", cgroupParent |-> "", runtime |-> ""],
     [name |-> "web", cgroupParent |-> "/lab", runtime |-> "kata"]}
ContainerNames == {pr.name : pr \in Profiles}
BaseDirs == {"/ckpt"}
CheckpointNames == {"cp1"}
NewNames == {"", "web2"}
LogTexts == {"Error (criu/cr-dump.c): dump failed"}
\* what a call to the runtime meets: "noclient" fails client.NewClientWithOpts,
\* "down" fails the API call itself
DaemonStates == {"ok", "down", "noclient"}
ApiStates == {"ok", "down"}

\* Options (main.go Options struct)
Opt(lr, tcp, fl, pd) ==
    [LeaveRunning |-> lr, TCPEstablished |-> tcp, FileLocks |-> fl, PreDump |-> pd]
\* the defaults of the flags come first
OptionsSet ==
    {Opt(TRUE, TRUE, TRUE, FALSE), Opt(FALSE, FALSE, TRUE, TRUE),
     Opt(TRUE, TRUE, FALSE, TRUE)}

\* the option flags a restore is run with (restore mode reads none of them)
RestoreOptionsSet == {Opt(TRUE, TRUE, TRUE, FALSE), Opt(FALSE, FALSE, FALSE, FALSE)}

NsTypes == <<"ipc", "mnt", "net", "pid", "user", "uts", "cgroup">>

EmptyMap == [k \in {} |-> ""]

RECURSIVE Itoa(_)
Itoa(n) == IF n < 10 THEN SubSeq("0123456789", n + 1, n + 1)
           ELSE Itoa(n \div 10) \o SubSeq("0123456789", (n % 10) + 1, (n % 10) + 1)

\* ------------------------------------------------------- runtime (Docker)
NoContainer ==
    [ID |-> "", Name |-> "", Running |-> FALSE, Status |-> "", Pid |-> 0,
     MergedDir |-> "",
     Config |-> [Image |-> "", Cmd |-> <<>>, Hostname |-> ""],
     HostConfig |-> [Runtime |-> "", CgroupParent |-> "", Privileged |-> FALSE, PidMode |-> ""]]

\* the n-th container of the runtime as docker run starts it
RunContainer(n, name, cgroupParent, runtime) ==
    [ID |-> MkId(n), Name |-> "/" \o name, Running |-> TRUE,
     Status |-> "running", Pid |-> InitPid(n),
     MergedDir |-> "/var/lib/docker/overlay2/" \o SubSeq(MkId(n), 1, ShortIdLen) \o "/merged",
     Config |-> [Image |-> "alpine", Cmd |-> <<"sleep", "3600">>,
                 Hostname |-> SubSeq(MkId(n), 1, ShortIdLen)],
     HostConfig |-> [Runtime |-> runtime, CgroupParent |-> cgroupParent,
                     Privileged |-> FALSE, PidMode |-> ""]]

NoInfo ==
    [ID |-> "", Name |-> "", PID |-> 0, State |-> "", RootFS |-> "", Runtime |-> "",
     BundlePath |-> "", Namespaces |-> EmptyMap, CgroupPath |-> ""]

\* containers of function cs that the identifier names: full ID, short ID or name
Resolve(cs, ident) ==
    {id \in DOMAIN cs : \/ id = ident
                        \/ SubSeq(id, 1, ShortIdLen) = ident
                        \/ cs[id].Name = "/" \o ident}

\* cli.ContainerInspect
ContainerInspect(cs, ident, daemon) ==
    IF daemon # "ok"
    THEN [err |-> "Cannot connect to the Docker daemon", json |-> NoContainer]
    ELSE IF Resolve(cs, ident) = {}
    THEN [err |-> "No such container: " \o ident, json |-> NoContainer]
    ELSE [err |-> "", json |-> cs[CHOOSE id \in Resolve(cs, ident) : TRUE]]

RuntimeOrDefault(r) == IF r = "" THEN "runc" ELSE r

BundlePathOf(runtime, id) == "/run/docker/runtime-" \o runtime \o "/moby/" \o id

\* inspectContainer without the State.Running test
inspectContainer_noRunningCheck(cs, containerName, daemon) ==
    LET r == ContainerInspect(cs, containerName, daemon)
        j == r.json
        runtime == RuntimeOrDefault(j.HostConfig.Runtime)
    IN  IF daemon = "noclient"
        THEN [err |-> Errorf("failed to create docker client", "invalid DOCKER_HOST"),
              info |-> NoInfo]
        ELSE IF r.err # ""
        THEN [err |-> Errorf("failed to inspect container", r.err), info |-> NoInfo]
        ELSE [err |-> "",
              info |-> [ID |-> SubSeq(j.ID, 1, ShortIdLen),
                        Name |-> TrimPrefix(j.Name, "/"),
                        PID |-> j.Pid,
                        State |-> j.Status,
                        RootFS |-> j.MergedDir,
                        Runtime |-> runtime,
                        BundlePath |-> BundlePathOf(runtime, j.ID),
                        CgroupPath |-> j.HostConfig.CgroupParent,
                        Namespaces |-> [ns \in {NsTypes[i] : i \in 1..Len(NsTypes)} |->
                                          "/proc/" \o Itoa(j.Pid) \o "/ns/" \o ns]]]

\* inspectContainer: facts of a running container
inspectContainer(cs, containerName, daemon) ==
    LET r == ContainerInspect(cs, containerName, daemon)
        j == r.json
        runtime == RuntimeOrDefault(j.HostConfig.Runtime)
    IN  IF daemon = "noclient"
        THEN [err |-> Errorf("failed to create docker client", "invalid DOCKER_HOST"),
              info |-> NoInfo]
        ELSE IF r.err # ""
        THEN [err |-> Errorf("failed to inspect container", r.err), info |-> NoInfo]
        ELSE IF ~j.Running
        THEN [err |-> "container " \o containerName \o " is not running", info |-> NoInfo]
        ELSE [err |-> "",
              info |-> [ID |-> SubSeq(j.ID, 1, ShortIdLen),
                        Name |-> TrimPrefix(j.Name, "/"),
                        PID |-> j.Pid,
                        State |-> j.Status,
                        RootFS |-> j.MergedDir,
                        Runtime |-> runtime,
                        BundlePath |-> BundlePathOf(runtime, j.ID),
                        CgroupPath |-> j.HostConfig.CgroupParent,
                        Namespaces |-> [ns \in {NsTypes[i] : i \in 1..Len(NsTypes)} |->
                                          "/proc/" \o Itoa(j.Pid) \o "/ns/" \o ns]]]

\* getStoppedContainerInfo with the State.Running test of inspectContainer
getStoppedContainerInfo_requireRunning(cs, containerName, daemon) ==
    LET r == inspectContainer(cs, containerName, daemon)
    IN  [err |-> r.err, info |-> [r.info EXCEPT !.PID = 0, !.Namespaces = EmptyMap]]

\* getStoppedContainerInfo: facts of a container that need not be running
getStoppedContainerInfo(cs, containerName, daemon) ==
    LET r == ContainerInspect(cs, containerName, daemon)
        j == r.json
        runtime == RuntimeOrDefault(j.HostConfig.Runtime)
    IN  IF daemon = "noclient"
        THEN [err |-> Errorf("failed to create docker client", "invalid DOCKER_HOST"),
              info |-> NoInfo]
        ELSE IF r.err # ""
        THEN [err |-> Errorf("failed to inspect container", r.err), info |-> NoInfo]
        ELSE [err |-> "",
              info |-> [ID |-> SubSeq(j.ID, 1, ShortIdLen),
                        Name |-> TrimPrefix(j.Name, "/"),
                        PID |-> 0,
                        State |-> j.Status,
                        RootFS |-> j.MergedDir,
                        Runtime |-> runtime,
                        BundlePath |-> BundlePathOf(runtime, j.ID),
                        CgroupPath |-> j.HostConfig.CgroupParent,
                        Namespaces |-> EmptyMap]]

\* ------------------------------------------------- engine configuration
\* the Mount Classification Table (External of rpc.CriuOpts)
ExternalMounts ==
    <<"mnt[/proc]:proc", "mnt[/dev]:dev", "mnt[/sys]:sys", "mnt[/dev/shm]:shm",
      "mnt[/dev/pts]:pts", "mnt[/dev/mqueue]:mqueue", "mnt[/etc/hostname]:hostname",
      "mnt[/etc/hosts]:hosts", "mnt[/etc/resolv.conf]:resolv.conf",
      "mnt[/sys/fs/cgroup]:cgroup">>

CriuLogLevel == 4

\* a cgroup path that is always derived from the container ID
CgroupPathOf_alwaysDerived(info) == "/docker/" \o info.ID

\* cgroupPath of doCRIUCheckpoint / doCRIURestore
CgroupPathOf(info) ==
    IF info.CgroupPath = "" THEN "/docker/" \o info.ID ELSE info.CgroupPath

CgRootOf(cgroupPath) ==
    <<[Ctrl |-> "cpu", Path |-> cgroupPath], [Ctrl |-> "memory", Path |-> cgroupPath]>>

\* a dump configuration that always leaves the container running
DumpOpts_alwaysLeaveRunning(info, opts, fd) ==
    [Pid |-> <<info.PID>>,
     LogLevel |-> <<CriuLogLevel>>,
     LogFile |-> <<"dump.log">>,
     Root |-> <<info.RootFS>>,
     ManageCgroups |-> <<TRUE>>,
     TcpEstablished |-> <<opts.TCPEstablished>>,
     FileLocks |-> <<opts.FileLocks>>,
     LeaveRunning |-> <<TRUE>>,
     External |-> ExternalMounts,
     ShellJob |-> <<TRUE>>,
     CgRoot |-> CgRootOf(CgroupPathOf(info)),
     ImagesDirFd |-> <<fd>>,
     TrackMem |-> <<>>,
     RstSibling |-> <<>>,
     RestoreDetached |-> <<>>]

\* An optional protobuf field is <<>> when unset and <<v>> when set.
\* criuOpts of doCRIUCheckpoint (ImagesDirFd is set once the directory is open)
DumpOpts(info, opts, fd) ==
    [Pid |-> <<info.PID>>,
     LogLevel |-> <<CriuLogLevel>>,
     LogFile |-> <<"dump.log">>,
     Root |-> <<info.RootFS>>,
     ManageCgroups |-> <<TRUE>>,
     TcpEstablished |-> <<opts.TCPEstablished>>,
     FileLocks |-> <<opts.FileLocks>>,
     LeaveRunning |-> <<opts.LeaveRunning>>,
     External |-> ExternalMounts,
     ShellJob |-> <<TRUE>>,
     CgRoot |-> CgRootOf(CgroupPathOf(info)),
     ImagesDirFd |-> <<fd>>,
     TrackMem |-> <<>>,
     RstSibling |-> <<>>,
     RestoreDetached |-> <<>>]

\* a pre-dump configuration that also gives up the file locks
PreDumpOpts_noFileLocks(criuOpts) ==
    [criuOpts EXCEPT !.TrackMem = <<TRUE>>, !.TcpEstablished = <<FALSE>>,
                     !.FileLocks = <<FALSE>>]

\* preDumpOpts := *criuOpts with TrackMem and TcpEstablished replaced
PreDumpOpts(criuOpts) ==
    [criuOpts EXCEPT !.TrackMem = <<TRUE>>, !.TcpEstablished = <<FALSE>>]

\* a pre-dump that sets its two fields in the dump configuration itself
\* (preDumpOpts := criuOpts)
CriuOptsAfterPreDump_aliased(criuOpts) ==
    [criuOpts EXCEPT !.TrackMem = <<TRUE>>, !.TcpEstablished = <<FALSE>>]

\* criuOpts once the pre-dump block has run: preDumpOpts := *criuOpts copies the
\* struct, so the assignments to the fields of the copy do not reach criuOpts
CriuOptsAfterPreDump(criuOpts) == criuOpts

\* a restore configuration without the cgroup mount
RestoreOpts_noCgroupMount(info, fd) ==
    [Pid |-> <<>>,
     LogLevel |-> <<CriuLogLevel>>,
     LogFile |-> <<"restore.log">>,
     Root |-> <<info.RootFS>>,
     ManageCgroups |-> <<TRUE>>,
     TcpEstablished |-> <<TRUE>>,
     FileLocks |-> <<TRUE>>,
     LeaveRunning |-> <<>>,
     External |-> SubSeq(ExternalMounts, 1, Len(ExternalMounts) - 1),
     ShellJob |-> <<TRUE>>,
     CgRoot |-> CgRootOf(CgroupPathOf(info)),
     ImagesDirFd |-> <<fd>>,
     TrackMem |-> <<>>,
     RstSibling |-> <<TRUE>>,
     RestoreDetached |-> <<TRUE>>]

\* a restore configuration that is not detached
RestoreOpts_attached(info, fd) ==
    [Pid |-> <<>>,
     LogLevel |-> <<CriuLogLevel>>,
     LogFile |-> <<"restore.log">>,
     Root |-> <<info.RootFS>>,
     ManageCgroups |-> <<TRUE>>,
     TcpEstablished |-> <<TRUE>>,
     FileLocks |-> <<TRUE>>,
     LeaveRunning |-> <<>>,
     External |-> ExternalMounts,
     ShellJob |-> <<TRUE>>,
     CgRoot |-> CgRootOf(CgroupPathOf(info)),
     ImagesDirFd |-> <<fd>>,
     TrackMem |-> <<>>,
     RstSibling |-> <<TRUE>>,
     RestoreDetached |-> <<>>]

\* criuOpts of doCRIURestore
RestoreOpts(info, fd) ==
    [Pid |-> <<>>,
     LogLevel |-> <<CriuLogLevel>>,
     LogFile |-> <<"restore.log">>,
     Root |-> <<info.RootFS>>,
     ManageCgroups |-> <<TRUE>>,
     TcpEstablished |-> <<TRUE>>,
     FileLocks |-> <<TRUE>>,
     LeaveRunning |-> <<>>,
     External |-> ExternalMounts,
     ShellJob |-> <<TRUE>>,
     CgRoot |-> CgRootOf(CgroupPathOf(info)),
     ImagesDirFd |-> <<fd>>,
     TrackMem |-> <<>>,
     RstSibling |-> <<TRUE>>,
     RestoreDetached |-> <<TRUE>>]

\* container.json as os.Create leaves it: truncated to no bytes
NoMeta == ""

\* the metadata map of saveMetadata
MetadataOf(info) ==
    [id |-> info.ID, name |-> info.Name, runtime |-> info.Runtime,
     rootfs |-> info.RootFS, bundle_path |-> info.BundlePath,
     namespaces |-> info.Namespaces, cgroup_path |-> info.CgroupPath]

\* ------------------------------------------------------------------ state
VARIABLES
    containers,   \* runtime: container ID -> container descriptor
    nextId,       \* runtime: number of the next container ID
    restored,     \* kernel: process ids resurrected by the engine's restore
    dirs,         \* filesystem: existing checkpoint directories
    metaFile,     \* filesystem: directory -> container.json
    logFile,      \* filesystem: <<directory, log name>> -> text
    images,       \* filesystem: directories holding a complete image set
    pc,           \* per process: position in main
    args,         \* per process: parsed command line
    info,         \* per process: ContainerInfo in use
    metadata,     \* per process: metadata of restoreContainer, <<>> until loaded
    ckDir,        \* per process: checkpointDir
    workDir,      \* per process: open image-directory handle, <<>> when closed
    calls,        \* per process: engine operations of this invocation
    trace,        \* per process: external steps of this invocation
    out,          \* per process: what this invocation printed
    exit,         \* per process: exit status, -1 while running
    events,       \* container starts and tool invocations so far
    alone         \* the invocation that is run once more alone, what it did step by
                  \* step in the concurrent run, and how the invocation beside it ended

rtVars == <<containers, nextId, restored>>
fsVars == <<dirs, metaFile, logFile, images>>
procVars == <<pc, args, info, metadata, ckDir, workDir, calls, trace, out, exit>>
vars == <<containers, nextId, restored, dirs, metaFile, logFile, images,
          pc, args, info, metadata, ckDir, workDir, calls, trace, out, exit, events, alone>>

\* no invocation is being run once more alone, none has taken a step
NoAlone == [who |-> 0, hist |-> [p \in Procs |-> <<>>], final |-> <<>>, beside |-> <<>>]

NoArgs ==
    [restore |-> FALSE, containerName |-> "", checkpointName |-> "", baseDir |-> "",
     opts |-> [LeaveRunning |-> TRUE, TCPEstablished |-> TRUE, FileLocks |-> TRUE,
               PreDump |-> FALSE],
     newName |-> ""]

Init ==
    /\ containers = [k \in {} |-> NoContainer]
    /\ nextId = 1
    /\ restored = {}
    /\ dirs = {}
    /\ metaFile = [k \in {} |-> NoMeta]
    /\ logFile = [k \in {} |-> ""]
    /\ images = {}
    /\ pc = [p \in Procs |-> "idle"]
    /\ args = [p \in Procs |-> NoArgs]
    /\ info = [p \in Procs |-> NoInfo]
    /\ metadata = [p \in Procs |-> <<>>]
    /\ ckDir = [p \in Procs |-> ""]
    /\ workDir = [p \in Procs |-> <<>>]
    /\ calls = [p \in Procs |-> <<>>]
    /\ trace = [p \in Procs |-> <<>>]
    /\ out = [p \in Procs |-> <<>>]
    /\ exit = [p \in Procs |-> -1]
    /\ events = 0
    /\ alone = NoAlone

Idle(p) == pc[p] = "idle"
AllIdle == \A p \in Procs : Idle(p)

Ev(op, arg, ok) == [op |-> op, arg |-> arg, ok |-> ok]
Stdout(text) == [fd |-> "stdout", text |-> text]
Stderr(text) == [fd |-> "stderr", text |-> text]

\* ------------------------------------------------------------ environment
\* docker run -d --name <name>
EnvRun(name, cgroupParent, runtime) ==
    /\ AllIdle
    /\ events < MaxEvents
    /\ events' = events + 1
    /\ \A id \in DOMAIN containers : containers[id].Name # "/" \o name
    /\ containers' = (MkId(nextId) :> RunContainer(nextId, name, cgroupParent, runtime))
                         @@ containers
    /\ nextId' = nextId + 1
    /\ UNCHANGED <<restored, fsVars, procVars, alone>>

\* docker stop
EnvStop(id) ==
    /\ AllIdle
    /\ events < MaxEvents
    /\ id \in DOMAIN containers
    /\ containers[id].Running
    /\ containers' = [containers EXCEPT ![id].Running = FALSE, ![id].Pid = 0,
                                        ![id].Status = "exited"]
    /\ UNCHANGED <<nextId, restored, fsVars, procVars, events, alone>>

\* the process of a container with a restart policy exits: until the runtime
\* has started it again ContainerInspect reports State.Running true, the status
\* "restarting" and State.Pid 0
EnvRestarting(id) ==
    /\ AllIdle
    /\ events < MaxEvents
    /\ id \in DOMAIN containers
    /\ containers[id].Running
    /\ containers[id].Pid # 0
    /\ containers' = [containers EXCEPT ![id].Pid = 0, ![id].Status = "restarting"]
    /\ UNCHANGED <<nextId, restored, fsVars, procVars, events, alone>>

\* docker rm
EnvRemove(id) ==
    /\ AllIdle
    /\ events < MaxEvents
    /\ id \in DOMAIN containers
    /\ ~containers[id].Running
    /\ containers' = [k \in DOMAIN containers \ {id} |-> containers[k]]
    /\ UNCHANGED <<nextId, restored, fsVars, procVars, events, alone>>

Env ==
    \/ \E pr \in Profiles : EnvRun(pr.name, pr.cgroupParent, pr.runtime)
    \/ \E id \in DOMAIN containers : EnvStop(id)
    \/ \E id \in DOMAIN containers : EnvRestarting(id)
    \/ \E id \in DOMAIN containers : EnvRemove(id)

\* ------------------------------------------------------------ tool: common
\* identifiers a user may pass as -container
Idents ==
    ContainerNames \cup {"ghost"} \cup {SubSeq(id, 1, ShortIdLen) : id \in DOMAIN containers}

Append1(f, p, x) == [f EXCEPT ![p] = Append(@, x)]

\* log.Fatal(prefix, err): fmt.Sprint adds no space next to a string operand
Fatal(p, prefix, err, before) ==
    /\ out' = [out EXCEPT ![p] = @ \o before \o <<Stderr(prefix \o err)>>]
    /\ exit' = [exit EXCEPT ![p] = 1]
    /\ pc' = [pc EXCEPT ![p] = "done"]

\* a process (of any container) with this pid is alive
PidAlive(pid) ==
    pid # 0 /\ \E id \in DOMAIN containers : containers[id].Running /\ containers[id].Pid = pid

\* what the engine leaves in its log file: "" stands for no log written
EngineLogs == LogTexts \cup {""}
WriteLog(path, text) == IF text = "" THEN logFile ELSE (path :> text) @@ logFile

\* os.ReadDir of a checkpoint directory: names in lexical order
DirListing(dir, ds, metas, logs, imgs) ==
    IF dir \notin ds THEN <<>>
    ELSE (IF filepathJoin(<<dir, "container.json">>) \in DOMAIN metas
          THEN <<"container.json">> ELSE <<>>)
      \o (IF filepathJoin(<<dir, "dump.log">>) \in DOMAIN logs THEN <<"dump.log">> ELSE <<>>)
      \o (IF dir \in imgs THEN <<"inventory.img">> ELSE <<>>)
      \o (IF filepathJoin(<<dir, "restore.log">>) \in DOMAIN logs
          THEN <<"restore.log">> ELSE <<>>)

printContainerInfo(i) ==
    <<Stdout("Container Information:\n"),
      Stdout("  ID:         " \o i.ID \o "\n"),
      Stdout("  Name:       " \o i.Name \o "\n"),
      Stdout("  PID:        " \o Itoa(i.PID) \o "\n"),
      Stdout("  State:      " \o i.State \o "\n"),
      Stdout("  Runtime:    " \o i.Runtime \o "\n"),
      Stdout("  RootFS:     " \o i.RootFS \o "\n"),
      Stdout("  Bundle:     " \o i.BundlePath \o "\n"),
      Stdout("  Cgroup:     " \o i.CgroupPath \o "\n")>>

\* main with an empty -container: usage and exit status 1
mainUsage(p, restore) ==
    /\ Idle(p)
    /\ events < MaxEvents
    /\ events' = events + 1
    /\ args' = [args EXCEPT ![p] = [NoArgs EXCEPT !.restore = restore]]
    /\ info' = [info EXCEPT ![p] = NoInfo]
    /\ ckDir' = [ckDir EXCEPT ![p] = ""]
    /\ calls' = [calls EXCEPT ![p] = <<>>]
    /\ trace' = [trace EXCEPT ![p] = <<>>]
    /\ out' = [out EXCEPT ![p] = <<Stderr("Usage: docker-checkpoint -container <name> [options]\n")>>]
    /\ exit' = [exit EXCEPT ![p] = 1]
    /\ pc' = [pc EXCEPT ![p] = "done"]
    /\ UNCHANGED <<rtVars, fsVars, workDir, metadata, alone>>

\* -------------------------------------------------------- tool: checkpoint
\* main, checkpoint mode, up to the call of checkpointContainer
mainCheckpoint(p, containerName, checkpointName, baseDir, opts) ==
    /\ Idle(p)
    /\ events < MaxEvents
    /\ containerName # ""
    /\ events' = events + 1
    /\ args' = [args EXCEPT ![p] = [restore |-> FALSE, containerName |-> containerName,
                                    checkpointName |-> checkpointName, baseDir |-> baseDir,
                                    opts |-> opts, newName |-> ""]]
    /\ info' = [info EXCEPT ![p] = NoInfo]
    /\ ckDir' = [ckDir EXCEPT ![p] = ""]
    /\ calls' = [calls EXCEPT ![p] = <<>>]
    /\ trace' = [trace EXCEPT ![p] = <<>>]
    /\ out' = [out EXCEPT ![p] =
                 <<Stdout("Starting checkpoint of container '" \o containerName \o "'...\n")>>]
    /\ exit' = [exit EXCEPT ![p] = -1]
    /\ pc' = [pc EXCEPT ![p] = "ck_inspect"]
    /\ UNCHANGED <<rtVars, fsVars, workDir, metadata, alone>>

\* checkpointContainer: inspectContainer and printContainerInfo
checkpointContainer_inspect(p) ==
    /\ pc[p] = "ck_inspect"
    /\ \E daemon \in DaemonStates :
         LET r == inspectContainer(containers, args[p].containerName, daemon)
         IN  /\ trace' = Append1(trace, p, Ev("inspect", args[p].containerName, r.err = ""))
             /\ IF r.err # ""
                THEN /\ Fatal(p, "Checkpoint failed:", Errorf("failed to inspect container", r.err), <<>>)
                     /\ UNCHANGED info
                ELSE /\ info' = [info EXCEPT ![p] = r.info]
                     /\ out' = [out EXCEPT ![p] = @ \o printContainerInfo(r.info)]
                     /\ pc' = [pc EXCEPT ![p] = "ck_mkdir"]
                     /\ UNCHANGED exit
    /\ UNCHANGED <<rtVars, fsVars, args, metadata, ckDir, workDir, calls, events, alone>>

\* checkpointContainer: os.MkdirAll of <base>/<info.Name>/<checkpoint>
checkpointContainer_mkdir(p) ==
    /\ pc[p] = "ck_mkdir"
    /\ LET checkpointDir == filepathJoin(<<args[p].baseDir, info[p].Name, args[p].checkpointName>>)
       IN  \E ok \in BOOLEAN :
             /\ ckDir' = [ckDir EXCEPT ![p] = checkpointDir]
             /\ trace' = Append1(trace, p, Ev("mkdir", checkpointDir, ok))
             /\ IF ok
                THEN /\ dirs' = dirs \cup {checkpointDir}
                     /\ out' = [out EXCEPT ![p] =
                                  Append(@, Stdout("\nCheckpointing to: " \o checkpointDir \o "\n"))]
                     /\ pc' = [pc EXCEPT ![p] = "ck_open"]
                     /\ UNCHANGED exit
                ELSE /\ Fatal(p, "Checkpoint failed:",
                              Errorf("failed to create checkpoint directory", "mkdir: permission denied"),
                              <<>>)
                     /\ UNCHANGED dirs
    /\ UNCHANGED <<rtVars, metaFile, logFile, images, args, metadata, info, workDir, calls, events, alone>>

\* a return that leaves the image-directory handle open
deferClose_leak(wd, p) == wd

\* defer workDir.Close(): runs when doCRIUCheckpoint or doCRIURestore returns
deferClose(wd, p) == [wd EXCEPT ![p] = <<>>]

\* doCRIUCheckpoint: whether the pre-dump pass is run
PreDumpRequested(opts) == opts.PreDump

\* doCRIUCheckpoint: build criuOpts, os.Open(checkpointDir), defer workDir.Close()
doCRIUCheckpoint_open(p) ==
    /\ pc[p] = "ck_open"
    /\ \E ok \in BOOLEAN :
         /\ ok => ckDir[p] \in dirs
         /\ trace' = Append1(trace, p, Ev("open", ckDir[p], ok))
         /\ IF ok
            THEN /\ workDir' = [workDir EXCEPT ![p] = <<ckDir[p]>>]
                 /\ pc' = [pc EXCEPT ![p] =
                             IF PreDumpRequested(args[p].opts) THEN "ck_predump" ELSE "ck_dump"]
                 /\ UNCHANGED <<out, exit>>
            ELSE /\ Fatal(p, "Checkpoint failed:",
                          Errorf("checkpoint failed",
                                 Errorf("failed to open checkpoint directory", "open: no such file or directory")),
                          <<>>)
                 /\ UNCHANGED workDir
    /\ UNCHANGED <<rtVars, fsVars, args, metadata, info, ckDir, calls, events, alone>>

EngineCall(op, cfg) == [op |-> op, cfg |-> cfg, status |-> "running"]

\* doCRIUCheckpoint: criuClient.PreDump(&preDumpOpts, nil) is entered
doCRIUCheckpoint_preDumpCall(p) ==
    /\ pc[p] = "ck_predump"
    /\ LET criuOpts == DumpOpts(info[p], args[p].opts, workDir[p])
       IN  calls' = Append1(calls, p, EngineCall("predump", PreDumpOpts(criuOpts)))
    /\ out' = Append1(out, p, Stdout("Performing pre-dump...\n"))
    /\ pc' = [pc EXCEPT ![p] = "ck_predumping"]
    /\ UNCHANGED <<rtVars, fsVars, args, metadata, info, ckDir, workDir, trace, exit, events, alone>>

\* a pre-dump failure that is not propagated
AfterPreDump_ignoreFailure(ok) == "ck_dump"

\* a pre-dump that is tried again after it failed
AfterPreDump_retry(ok) == IF ok THEN "ck_dump" ELSE "ck_predump"

\* doCRIUCheckpoint: where control goes when PreDump returned
AfterPreDump(ok) == IF ok THEN "ck_dump" ELSE "done"

\* doCRIUCheckpoint: criuClient.PreDump returns
doCRIUCheckpoint_preDumpReturn(p) ==
    /\ pc[p] = "ck_predumping"
    /\ \E ok \in BOOLEAN, text \in EngineLogs :
         LET cfg == calls[p][Len(calls[p])].cfg
             logPath == filepathJoin(<<cfg.ImagesDirFd[1][1], cfg.LogFile[1]>>)
         IN  /\ ok => PidAlive(cfg.Pid[1])
             /\ ok => text = ""
             /\ logFile' = IF ok THEN (logPath :> "Pre-dumping finished successfully") @@ logFile
                           ELSE WriteLog(logPath, text)
             /\ calls' = [calls EXCEPT ![p][Len(calls[p])].status = IF ok THEN "ok" ELSE "failed"]
             /\ trace' = Append1(trace, p, Ev("predump", ckDir[p], ok))
             /\ IF AfterPreDump(ok) # "done"
                THEN /\ pc' = [pc EXCEPT ![p] = AfterPreDump(ok)]
                     /\ UNCHANGED <<out, exit, workDir>>
                ELSE /\ workDir' = deferClose(workDir, p)
                     /\ Fatal(p, "Checkpoint failed:",
                              Errorf("checkpoint failed",
                                     Errorf("pre-dump failed", "criu failed: type PRE_DUMP errno 0")),
                              <<>>)
    /\ UNCHANGED <<rtVars, dirs, metaFile, images, args, metadata, info, ckDir, events, alone>>

\* doCRIUCheckpoint: criuClient.Dump(criuOpts, nil) is entered
doCRIUCheckpoint_dumpCall(p) ==
    /\ pc[p] = "ck_dump"
    /\ LET criuOpts == DumpOpts(info[p], args[p].opts, workDir[p])
       IN  calls' = Append1(calls, p,
                            EngineCall("dump", IF PreDumpRequested(args[p].opts)
                                               THEN CriuOptsAfterPreDump(criuOpts)
                                               ELSE criuOpts))
    /\ out' = Append1(out, p, Stdout("Performing checkpoint...\n"))
    /\ pc' = [pc EXCEPT ![p] = "ck_dumping"]
    /\ UNCHANGED <<rtVars, fsVars, args, metadata, info, ckDir, workDir, trace, exit, events, alone>>

\* a failure report that announces the log and leaves its contents out
DumpFailureOutput_headerOnly(logs, logPath) ==
    IF logPath \in DOMAIN logs THEN <<Stdout("CRIU log:\n")>> ELSE <<>>

\* doCRIUCheckpoint: what is printed when Dump failed (os.ReadFile of dump.log)
DumpFailureOutput(logs, logPath) ==
    IF logPath \in DOMAIN logs
    THEN <<Stdout("CRIU log:\n" \o logs[logPath] \o "\n")>>
    ELSE <<>>

\* a checkpointContainer that saves metadata whatever doCRIUCheckpoint returned
AfterDump_alwaysSave(ok) == "ck_save"

\* checkpointContainer: where control goes when doCRIUCheckpoint's Dump returned
AfterDump(ok) == IF ok THEN "ck_save" ELSE "done"

\* doCRIUCheckpoint: criuClient.Dump returns
doCRIUCheckpoint_dumpReturn(p) ==
    /\ pc[p] = "ck_dumping"
    /\ \E ok \in BOOLEAN, text \in EngineLogs :
         LET cfg == calls[p][Len(calls[p])].cfg
             imgDir == cfg.ImagesDirFd[1][1]
             engineLog == filepathJoin(<<imgDir, cfg.LogFile[1]>>)
             logPath == filepathJoin(<<ckDir[p], "dump.log">>)
         IN  /\ ok => PidAlive(cfg.Pid[1])
             /\ ok => text = ""
             /\ logFile' = IF ok THEN (engineLog :> "Dumping finished successfully") @@ logFile
                           ELSE WriteLog(engineLog, text)
             /\ images' = IF ok THEN images \cup {imgDir} ELSE images
             /\ containers' =
                  IF ok /\ cfg.LeaveRunning # <<TRUE>>
                  THEN [id \in DOMAIN containers |->
                          IF containers[id].Running /\ containers[id].Pid = cfg.Pid[1]
                          THEN [containers[id] EXCEPT !.Running = FALSE, !.Pid = 0,
                                                      !.Status = "exited"]
                          ELSE containers[id]]
                  ELSE containers
             /\ calls' = [calls EXCEPT ![p][Len(calls[p])].status = IF ok THEN "ok" ELSE "failed"]
             /\ trace' = Append1(trace, p, Ev("dump", ckDir[p], ok))
             /\ workDir' = deferClose(workDir, p)
             /\ IF AfterDump(ok) = "ck_save"
                THEN /\ pc' = [pc EXCEPT ![p] = "ck_save"]
                     /\ UNCHANGED <<out, exit>>
                ELSE Fatal(p, "Checkpoint failed:",
                           Errorf("checkpoint failed",
                                  Errorf("CRIU dump failed", "criu failed: type DUMP errno 0")),
                           DumpFailureOutput(logFile', logPath))
    /\ UNCHANGED <<nextId, restored, dirs, metaFile, args, metadata, info, ckDir, events, alone>>

\* saveMetadata writing container.json next to the checkpoint directory's parent
saveMetadata_sharedFile(files, i, checkpointDir, res) ==
    LET metadataFile == filepathJoin(<<"/ckpt", "container.json">>)
    IN  IF res = "createfail" THEN files
        ELSE IF res = "encodefail" THEN (metadataFile :> NoMeta) @@ files
        ELSE (metadataFile :> Encode(MetadataOf(i))) @@ files

\* saveMetadata: os.Create truncates container.json, Encode writes the map
saveMetadata(files, i, checkpointDir, res) ==
    LET metadataFile == filepathJoin(<<checkpointDir, "container.json">>)
    IN  IF res = "createfail" THEN files
        ELSE IF res = "encodefail" THEN (metadataFile :> NoMeta) @@ files
        ELSE (metadataFile :> Encode(MetadataOf(i))) @@ files

\* the outcomes of the file calls of saveMetadata
SaveResults == {"ok", "createfail", "encodefail"}

\* checkpointContainer: what follows the saveMetadata that met res and left
\* the files saved, the rest of main or the error
checkpointContainer_saved(p, res, saved) ==
    /\ pc[p] = "ck_save"
    /\ metaFile' = saved
    /\ trace' = Append1(trace, p, Ev("savemeta", ckDir[p], res = "ok"))
    /\ IF res = "ok"
       THEN /\ out' = [out EXCEPT ![p] = @ \o
                 <<Stdout("Checkpoint successful!\n"),
                   Stdout("\nCheckpoint stored in: "
                          \o SprintfPath(args[p].baseDir, args[p].containerName,
                                         args[p].checkpointName) \o "\n"),
                   Stdout("\nCheckpoint contents:\n")>>
                 \o LET files == DirListing(SprintfPath(args[p].baseDir,
                                                        args[p].containerName,
                                                        args[p].checkpointName),
                                            dirs, metaFile', logFile, images)
                    IN  [k \in 1..Len(files) |-> Stdout("  " \o files[k] \o "\n")]]
            /\ exit' = [exit EXCEPT ![p] = 0]
            /\ pc' = [pc EXCEPT ![p] = "done"]
       ELSE Fatal(p, "Checkpoint failed:",
                  Errorf("failed to save metadata", "open container.json: " \o res), <<>>)
    /\ UNCHANGED <<rtVars, dirs, logFile, images, args, metadata, info, ckDir, workDir, calls, events, alone>>

\* checkpointContainer: saveMetadata, then the rest of main
checkpointContainer_saveMetadata(p) ==
    /\ pc[p] = "ck_save"
    /\ \E res \in SaveResults :
         \E saved \in {saveMetadata(metaFile, info[p], ckDir[p], res)} :
             checkpointContainer_saved(p, res, saved)

\* ---------------------------------------------------------- tool: restore
\* a default name that does not depend on the container
NewNameOf_shared(containerName, newNameFlag) ==
    IF newNameFlag = "" THEN "restored" ELSE newNameFlag

\* main: -new-name defaults to <container>-restored
NewNameOf(containerName, newNameFlag) ==
    IF newNameFlag = "" THEN containerName \o "-restored" ELSE newNameFlag

\* main, restore mode, up to the call of restoreContainer
mainRestore(p, containerName, checkpointName, baseDir, newNameFlag, opts) ==
    /\ Idle(p)
    /\ events < MaxEvents
    /\ containerName # ""
    /\ events' = events + 1
    /\ args' = [args EXCEPT ![p] =
                  [NoArgs EXCEPT !.restore = TRUE, !.containerName = containerName,
                                 !.checkpointName = checkpointName, !.baseDir = baseDir,
                                 !.opts = opts,
                                 !.newName = NewNameOf(containerName, newNameFlag)]]
    /\ info' = [info EXCEPT ![p] = NoInfo]
    /\ ckDir' = [ckDir EXCEPT ![p] = ""]
    /\ calls' = [calls EXCEPT ![p] = <<>>]
    /\ trace' = [trace EXCEPT ![p] = <<>>]
    /\ out' = [out EXCEPT ![p] =
                 <<Stdout("Starting restore of container '" \o containerName
                          \o "' from checkpoint '" \o checkpointName \o "'...\n")>>]
    /\ exit' = [exit EXCEPT ![p] = -1]
    /\ pc' = [pc EXCEPT ![p] = "rs_stat"]
    /\ UNCHANGED <<rtVars, fsVars, workDir, metadata, alone>>

\* a restore that does not test the directory
CheckpointExists_unchecked(ds, checkpointDir) == TRUE

\* restoreContainer: os.Stat(checkpointDir) does not report IsNotExist
CheckpointExists(ds, checkpointDir) == checkpointDir \in ds

\* restoreContainer: the checkpoint directory must exist
restoreContainer_stat(p) ==
    /\ pc[p] = "rs_stat"
    /\ LET checkpointDir == filepathJoin(<<args[p].baseDir, args[p].containerName,
                                           args[p].checkpointName>>)
       IN  /\ ckDir' = [ckDir EXCEPT ![p] = checkpointDir]
           /\ trace' = Append1(trace, p, Ev("stat", checkpointDir, checkpointDir \in dirs))
           /\ IF CheckpointExists(dirs, checkpointDir)
              THEN /\ pc' = [pc EXCEPT ![p] = "rs_loadmeta"]
                   /\ UNCHANGED <<out, exit>>
              ELSE Fatal(p, "Restore failed:", "checkpoint does not exist at " \o checkpointDir, <<>>)
    /\ UNCHANGED <<rtVars, fsVars, args, metadata, info, workDir, calls, events, alone>>

\* a restore that carries on whatever the metadata load returned
AfterLoadMetadata_bestEffort(readOk, parseOk) == "rs_create"

\* restoreContainer: both the read error and the parse error are returned
AfterLoadMetadata(readOk, parseOk) == IF readOk /\ parseOk THEN "rs_create" ELSE "done"

\* restoreContainer: os.ReadFile of container.json and json.Unmarshal of its bytes
Unmarshalled(r) ==
    IF r.err # ""
    THEN [readOk |-> TRUE, parseOk |-> FALSE, metadata |-> <<>>,
          err |-> Errorf("failed to parse metadata", r.err)]
    ELSE [readOk |-> TRUE, parseOk |-> TRUE, metadata |-> r.metadata, err |-> ""]

LoadMetadata(files, checkpointDir) ==
    LET metadataFile == filepathJoin(<<checkpointDir, "container.json">>)
    IN  IF metadataFile \notin DOMAIN files
        THEN [readOk |-> FALSE, parseOk |-> FALSE, metadata |-> <<>>,
              err |-> Errorf("failed to read metadata",
                             "open " \o metadataFile \o ": no such file or directory")]
        ELSE Unmarshalled(Unmarshal(files[metadataFile]))

\* fmt.Printf("%s", metadata[key])
PrintfS(m, key) == IF key \in DOMAIN m THEN m[key] ELSE "%!s(<nil>)"

\* restoreContainer: what follows the metadata load that returned r, the
\* restore banner or the error
restoreContainer_loaded(p, r) ==
    /\ pc[p] = "rs_loadmeta"
    /\ trace' = Append1(trace, p, Ev("loadmeta", filepathJoin(<<ckDir[p], "container.json">>),
                                     r.parseOk))
    /\ metadata' = [metadata EXCEPT ![p] = r.metadata]
    /\ IF AfterLoadMetadata(r.readOk, r.parseOk) = "rs_create"
       THEN /\ out' = [out EXCEPT ![p] = @ \o
                 <<Stdout("Restoring from checkpoint at: " \o ckDir[p] \o "\n"),
                   Stdout("Original container ID: " \o PrintfS(r.metadata, "id") \o "\n"),
                   Stdout("New container name: " \o args[p].newName \o "\n")>>]
            /\ pc' = [pc EXCEPT ![p] = "rs_create"]
            /\ UNCHANGED exit
       ELSE Fatal(p, "Restore failed:", r.err, <<>>)
    /\ UNCHANGED <<rtVars, fsVars, args, info, ckDir, workDir, calls, events, alone>>

\* restoreContainer: load the metadata and print the restore banner
restoreContainer_loadMetadata(p) ==
    /\ pc[p] = "rs_loadmeta"
    /\ \E r \in {LoadMetadata(metaFile, ckDir[p])} : restoreContainer_loaded(p, r)

\* a create call that also starts the container
ContainerCreate_started(cs, n, config, hostConfig, name, daemon) ==
    IF daemon # "ok"
    THEN [err |-> "Cannot connect to the Docker daemon", cs |-> cs, id |-> ""]
    ELSE IF \E id \in DOMAIN cs : cs[id].Name = "/" \o name
    THEN [err |-> "Conflict. The container name \"/" \o name \o "\" is already in use",
          cs |-> cs, id |-> ""]
    ELSE [err |-> "",
          id |-> MkId(n),
          cs |-> (MkId(n) :> [ID |-> MkId(n), Name |-> "/" \o name, Running |-> TRUE,
                              Status |-> "running", Pid |-> InitPid(n),
                              MergedDir |-> "/var/lib/docker/overlay2/"
                                            \o SubSeq(MkId(n), 1, ShortIdLen) \o "/merged",
                              Config |-> config, HostConfig |-> hostConfig]) @@ cs]

\* cli.ContainerCreate: a new container in state "created"
ContainerCreate(cs, n, config, hostConfig, name, daemon) ==
    IF daemon # "ok"
    THEN [err |-> "Cannot connect to the Docker daemon", cs |-> cs, id |-> ""]
    ELSE IF \E id \in DOMAIN cs : cs[id].Name = "/" \o name
    THEN [err |-> "Conflict. The container name \"/" \o name \o "\" is already in use",
          cs |-> cs, id |-> ""]
    ELSE [err |-> "",
          id |-> MkId(n),
          cs |-> (MkId(n) :> [ID |-> MkId(n), Name |-> "/" \o name, Running |-> FALSE,
                              Status |-> "created", Pid |-> 0,
                              MergedDir |-> "/var/lib/docker/overlay2/"
                                            \o SubSeq(MkId(n), 1, ShortIdLen) \o "/merged",
                              Config |-> config, HostConfig |-> hostConfig]) @@ cs]

\* createBasicContainer: the minimal privileged placeholder
createBasicContainer(cs, n, name, daemon) ==
    LET r == ContainerCreate(cs, n,
                             [Image |-> "alpine:latest", Cmd |-> <<"sleep", "infinity">>,
                              Hostname |-> ""],
                             [Runtime |-> "", CgroupParent |-> "", Privileged |-> TRUE,
                              PidMode |-> "host"],
                             name, daemon)
    IN  IF r.err # ""
        THEN [err |-> Errorf("failed to create basic container", r.err), cs |-> cs, out |-> <<>>]
        ELSE [err |-> "", cs |-> r.cs,
              out |-> <<Stdout("Created basic container with ID: "
                               \o SubSeq(r.id, 1, ShortIdLen) \o "\n")>>]

\* createContainerForRestore
createContainerForRestore(cs, n, originalName, newName, d1, d2) ==
    LET originalInspect == ContainerInspect(cs, originalName, d1)
        basic == createBasicContainer(cs, n, newName, d2)
        r == ContainerCreate(cs, n,
                             [originalInspect.json.Config EXCEPT !.Hostname = newName],
                             originalInspect.json.HostConfig, newName, d2)
    IN  IF d1 = "noclient"
        THEN [err |-> Errorf("failed to create docker client", "invalid DOCKER_HOST"),
              cs |-> cs, out |-> <<>>]
        ELSE IF originalInspect.err # ""
        THEN [basic EXCEPT !.out =
                <<Stdout("Warning: Original container not found, using basic configuration\n")>>
                \o @]
        ELSE IF r.err # ""
        THEN [err |-> Errorf("failed to create container", r.err), cs |-> cs, out |-> <<>>]
        ELSE [err |-> "", cs |-> r.cs,
              out |-> <<Stdout("Created container with ID: "
                               \o SubSeq(r.id, 1, ShortIdLen) \o "\n")>>]

\* a creation failure that is not propagated
AfterCreate_ignoreError(err) == "rs_facts"

\* restoreContainer: where control goes when createContainerForRestore returned
AfterCreate(err) == IF err = "" THEN "rs_facts" ELSE "done"

\* restoreContainer: what follows createContainerForRestore, r its result
restoreContainer_created(p, r) ==
    /\ pc[p] = "rs_create"
    /\ containers' = r.cs
    /\ nextId' = IF r.cs # containers THEN nextId + 1 ELSE nextId
    /\ trace' = Append1(trace, p, Ev("create", args[p].newName, r.cs # containers))
    /\ IF AfterCreate(r.err) = "rs_facts"
       THEN /\ out' = [out EXCEPT ![p] = @ \o r.out]
            /\ pc' = [pc EXCEPT ![p] = "rs_facts"]
            /\ UNCHANGED exit
       ELSE Fatal(p, "Restore failed:",
                  Errorf("failed to create container for restore", r.err), r.out)
    /\ UNCHANGED <<restored, fsVars, args, metadata, info, ckDir, workDir, calls, events, alone>>

\* the results createContainerForRestore can have here
CreateResults(p) ==
    {createContainerForRestore(containers, nextId, args[p].containerName,
                               args[p].newName, d1, d2) :
        d1 \in DaemonStates, d2 \in ApiStates}

\* restoreContainer: create the container to restore into
restoreContainer_create(p) ==
    /\ pc[p] = "rs_create"
    /\ \E r \in CreateResults(p) : restoreContainer_created(p, r)

\* restoreContainer: inspectContainer, and getStoppedContainerInfo when that fails
restoreContainer_facts(p) ==
    /\ pc[p] = "rs_facts"
    /\ \E d1 \in DaemonStates, d2 \in DaemonStates :
         LET r1 == inspectContainer(containers, args[p].newName, d1)
             r2 == getStoppedContainerInfo(containers, args[p].newName, d2)
             r == IF r1.err = "" THEN r1 ELSE r2
         IN  /\ r1.err = "" => d2 = "ok"
             /\ trace' = Append1(trace, p, Ev("facts", args[p].newName, r.err = ""))
             /\ IF r.err = ""
                THEN /\ info' = [info EXCEPT ![p] = r.info]
                     /\ pc' = [pc EXCEPT ![p] = "rs_open"]
                     /\ UNCHANGED <<out, exit>>
                ELSE /\ Fatal(p, "Restore failed:",
                              Errorf("failed to get new container info", r.err), <<>>)
                     /\ UNCHANGED info
    /\ UNCHANGED <<rtVars, fsVars, args, metadata, ckDir, workDir, calls, events, alone>>

\* doCRIURestore: build criuOpts, os.Open(checkpointDir), defer workDir.Close()
doCRIURestore_open(p) ==
    /\ pc[p] = "rs_open"
    /\ \E ok \in BOOLEAN :
         /\ ok => ckDir[p] \in dirs
         /\ trace' = Append1(trace, p, Ev("open", ckDir[p], ok))
         /\ IF ok
            THEN /\ workDir' = [workDir EXCEPT ![p] = <<ckDir[p]>>]
                 /\ pc' = [pc EXCEPT ![p] = "rs_restore"]
                 /\ UNCHANGED <<out, exit>>
            ELSE /\ Fatal(p, "Restore failed:",
                          Errorf("CRIU restore failed",
                                 Errorf("failed to open checkpoint directory",
                                        "open: no such file or directory")),
                          <<>>)
                 /\ UNCHANGED workDir
    /\ UNCHANGED <<rtVars, fsVars, args, metadata, info, ckDir, calls, events, alone>>

\* a restore that takes the filesystem root and the cgroup path recorded in
\* container.json
FactsForRestore_fromMetadata(newInfo, loaded) ==
    [newInfo EXCEPT !.RootFS = loaded["rootfs"], !.CgroupPath = loaded["cgroup_path"]]

\* restoreContainer: the facts handed to doCRIURestore are newInfo, those of the
\* new container; the loaded metadata map is not passed on
FactsForRestore(newInfo, loaded) == newInfo

\* doCRIURestore: criuClient.Restore(criuOpts, nil) is entered
doCRIURestore_restoreCall(p) ==
    /\ pc[p] = "rs_restore"
    /\ calls' = Append1(calls, p,
                        EngineCall("restore",
                                   RestoreOpts(FactsForRestore(info[p], metadata[p]), workDir[p])))
    /\ out' = Append1(out, p, Stdout("Performing restore...\n"))
    /\ pc' = [pc EXCEPT ![p] = "rs_restoring"]
    /\ UNCHANGED <<rtVars, fsVars, args, metadata, info, ckDir, workDir, trace, exit, events, alone>>

\* a failure report that reads the log of the dump, next to restore.log
RestoreFailureOutput_dumpLog(logs, logPath) ==
    LET dumpLog == SubSeq(logPath, 1, Len(logPath) - Len("restore.log")) \o "dump.log"
    IN  IF dumpLog \in DOMAIN logs
        THEN <<Stdout("CRIU restore log:\n" \o logs[dumpLog] \o "\n")>>
        ELSE <<>>

\* doCRIURestore: what is printed when Restore failed (os.ReadFile of restore.log)
RestoreFailureOutput(logs, logPath) ==
    IF logPath \in DOMAIN logs
    THEN <<Stdout("CRIU restore log:\n" \o logs[logPath] \o "\n")>>
    ELSE <<>>

\* a main that verifies whatever restoreContainer returned
AfterRestore_alwaysVerify(ok) == "rs_verify"

\* main: where control goes when restoreContainer returned
AfterRestore(ok) == IF ok THEN "rs_verify" ELSE "done"

\* doCRIURestore: criuClient.Restore returns; restoreContainer returns to main
doCRIURestore_restoreReturn(p) ==
    /\ pc[p] = "rs_restoring"
    /\ \E ok \in BOOLEAN, text \in EngineLogs, reportsRunning \in BOOLEAN :
         LET cfg == calls[p][Len(calls[p])].cfg
             imgDir == cfg.ImagesDirFd[1][1]
             engineLog == filepathJoin(<<imgDir, cfg.LogFile[1]>>)
             logPath == filepathJoin(<<ckDir[p], "restore.log">>)
             target == Resolve(containers, args[p].newName)
         IN  /\ ok => imgDir \in images
             /\ ok => text = ""
             /\ ~ok => ~reportsRunning
             /\ logFile' = IF ok THEN (engineLog :> "Restore finished successfully") @@ logFile
                           ELSE WriteLog(engineLog, text)
             /\ restored' = IF ok THEN restored \cup {RestoredPid(nextId)} ELSE restored
             /\ containers' =
                  IF reportsRunning
                  THEN [id \in DOMAIN containers |->
                          IF id \in target
                          THEN [containers[id] EXCEPT !.Running = TRUE, !.Pid = RestoredPid(nextId),
                                                      !.Status = "running"]
                          ELSE containers[id]]
                  ELSE containers
             /\ calls' = [calls EXCEPT ![p][Len(calls[p])].status = IF ok THEN "ok" ELSE "failed"]
             /\ trace' = Append1(trace, p, Ev("restore", ckDir[p], ok))
             /\ workDir' = deferClose(workDir, p)
             /\ IF AfterRestore(ok) = "rs_verify"
                THEN /\ out' = Append1(out, p, Stdout("\nContainer restored successfully as '"
                                                      \o args[p].newName \o "'\n"))
                     /\ pc' = [pc EXCEPT ![p] = "rs_verify"]
                     /\ UNCHANGED exit
                ELSE Fatal(p, "Restore failed:",
                           Errorf("CRIU restore failed",
                                  Errorf("CRIU restore failed", "criu failed: type RESTORE errno 0")),
                           RestoreFailureOutput(logFile', logPath))
    /\ UNCHANGED <<nextId, dirs, metaFile, images, args, metadata, info, ckDir, events, alone>>

\* a verification that needs the statistics query to succeed
verifyRestoration_statsRequired(cs, containerName, daemon, logsOk, statsOk) ==
    LET r == ContainerInspect(cs, containerName, daemon)
        j == r.json
        status == <<Stdout("\nRestored Container Status:\n"),
                    Stdout("  Name:       " \o TrimPrefix(j.Name, "/") \o "\n"),
                    Stdout("  ID:         " \o SubSeq(j.ID, 1, ShortIdLen) \o "\n"),
                    Stdout("  State:      " \o j.Status \o "\n"),
                    Stdout("  Running:    " \o (IF j.Running THEN "true" ELSE "false") \o "\n")>>
    IN  IF daemon = "noclient"
        THEN [err |-> Errorf("failed to create docker client", "invalid DOCKER_HOST"), out |-> <<>>]
        ELSE IF r.err # ""
        THEN [err |-> Errorf("failed to inspect restored container", r.err), out |-> <<>>]
        ELSE IF j.Running /\ statsOk
        THEN [err |-> "",
              out |-> status \o <<Stdout("  PID:        " \o Itoa(j.Pid) \o "\n")>>
                      \o (IF logsOk THEN <<Stdout("\nRecent container logs:\n")>> ELSE <<>>)
                      \o <<Stdout("\nContainer is responding to API calls\n")>>]
        ELSE [err |-> "container is not running after restore", out |-> status]

\* verifyRestoration: "" when the container is reported running, else the error
verifyRestoration(cs, containerName, daemon, logsOk, statsOk) ==
    LET r == ContainerInspect(cs, containerName, daemon)
        j == r.json
        status == <<Stdout("\nRestored Container Status:\n"),
                    Stdout("  Name:       " \o TrimPrefix(j.Name, "/") \o "\n"),
                    Stdout("  ID:         " \o SubSeq(j.ID, 1, ShortIdLen) \o "\n"),
                    Stdout("  State:      " \o j.Status \o "\n"),
                    Stdout("  Running:    " \o (IF j.Running THEN "true" ELSE "false") \o "\n")>>
    IN  IF daemon = "noclient"
        THEN [err |-> Errorf("failed to create docker client", "invalid DOCKER_HOST"), out |-> <<>>]
        ELSE IF r.err # ""
        THEN [err |-> Errorf("failed to inspect restored container", r.err), out |-> <<>>]
        ELSE IF j.Running
        THEN [err |-> "",
              out |-> status \o <<Stdout("  PID:        " \o Itoa(j.Pid) \o "\n")>>
                      \o (IF logsOk THEN <<Stdout("\nRecent container logs:\n")>> ELSE <<>>)
                      \o (IF statsOk
                          THEN <<Stdout("\nContainer is responding to API calls\n")>>
                          ELSE <<>>)]
        ELSE [err |-> "container is not running after restore", out |-> status]

\* a main that treats a failed verification as fatal
VerifyExit_fatal(err) == IF err = "" THEN 0 ELSE 1

\* main: exit status once verifyRestoration returned (main falls off its end)
VerifyExit(err) == 0

\* main: verifyRestoration and the report of its result
mainVerify(p) ==
    /\ pc[p] = "rs_verify"
    /\ \E daemon \in DaemonStates, logsOk \in BOOLEAN, statsOk \in BOOLEAN :
         LET r == verifyRestoration(containers, args[p].newName, daemon, logsOk, statsOk)
         IN  /\ trace' = Append1(trace, p, Ev("verify", args[p].newName, r.err = ""))
             /\ out' = [out EXCEPT ![p] = @ \o r.out \o
                          <<IF r.err # ""
                            THEN Stdout("Warning: Restoration verification failed: " \o r.err \o "\n")
                            ELSE Stdout("Restoration verified successfully!\n")>>]
             /\ exit' = [exit EXCEPT ![p] = VerifyExit(r.err)]
             /\ pc' = [pc EXCEPT ![p] = "done"]
    /\ UNCHANGED <<rtVars, fsVars, args, metadata, info, ckDir, workDir, calls, events, alone>>

Restore(p) ==
    \/ Idle(p) /\ \E c \in Idents, n \in CheckpointNames, b \in BaseDirs,
                    nn \in NewNames, o \in RestoreOptionsSet :
         mainRestore(p, c, n, b, nn, o)
    \/ restoreContainer_stat(p)
    \/ restoreContainer_loadMetadata(p)
    \/ restoreContainer_create(p)
    \/ restoreContainer_facts(p)
    \/ doCRIURestore_open(p)
    \/ doCRIURestore_restoreCall(p)
    \/ doCRIURestore_restoreReturn(p)
    \/ mainVerify(p)

\* the process has exited: nothing of it is left but what it did to the world
mainExit(p) ==
    /\ pc[p] = "done"
    /\ pc' = [pc EXCEPT ![p] = "idle"]
    /\ args' = [args EXCEPT ![p] = NoArgs]
    /\ info' = [info EXCEPT ![p] = NoInfo]
    /\ ckDir' = [ckDir EXCEPT ![p] = ""]
    /\ calls' = [calls EXCEPT ![p] = <<>>]
    /\ trace' = [trace EXCEPT ![p] = <<>>]
    /\ out' = [out EXCEPT ![p] = <<>>]
    /\ exit' = [exit EXCEPT ![p] = -1]
    /\ workDir' = [workDir EXCEPT ![p] = <<>>]
    /\ metadata' = [metadata EXCEPT ![p] = <<>>]
    /\ UNCHANGED <<rtVars, fsVars, events, alone>>

Checkpoint(p) ==
    \/ Idle(p) /\ \E c \in Idents, n \in CheckpointNames, b \in BaseDirs, o \in OptionsSet :
         mainCheckpoint(p, c, n, b, o)
    \/ checkpointContainer_inspect(p)
    \/ checkpointContainer_mkdir(p)
    \/ doCRIUCheckpoint_open(p)
    \/ doCRIUCheckpoint_preDumpCall(p)
    \/ doCRIUCheckpoint_preDumpReturn(p)
    \/ doCRIUCheckpoint_dumpCall(p)
    \/ doCRIUCheckpoint_dumpReturn(p)
    \/ checkpointContainer_saveMetadata(p)

Next ==
    \/ Env
    \/ \E r \in BOOLEAN : mainUsage(MainProc, r)
    \/ Checkpoint(MainProc)
    \/ Restore(MainProc)
    \/ mainExit(MainProc)

Spec == Init /\ [][Next]_vars

\* ------------------------------------------- save and load of the metadata
\* facts records: what inspectContainer can put together from the runtime's
\* answer; the data root and the cgroup parent are the operator's strings
FactsIds == {MkId(1), MkId(2)}
FactsNames == {"web", "web2"}
FactsRuntimes == {"runc", "kata"}
FactsRootFS == {"", "/data/a&b <c>/overlay2/111111111111/merged"}
FactsNamespaces ==
    {EmptyMap,
     [ns \in {"net"} |-> "/proc/7/ns/net"],
     [ns \in {NsTypes[i] : i \in 1..Len(NsTypes)} |-> "/proc/" \o Itoa(1) \o "/ns/" \o ns]}
FactsCgroupPaths == {"", "/docker/111111111111", "/lab \"q\"\\x\ty/111111111111"}
FactsSet ==
    {[ID |-> SubSeq(id, 1, ShortIdLen), Name |-> name, PID |-> 1, State |-> "running", RootFS |-> rootfs,
      Runtime |-> runtime, BundlePath |-> BundlePathOf(runtime, id),
      Namespaces |-> nss, CgroupPath |-> cg] :
        id \in FactsIds, name \in FactsNames, rootfs \in FactsRootFS,
        runtime \in FactsRuntimes, nss \in FactsNamespaces, cg \in FactsCgroupPaths}

InitRoundTrip ==
    /\ containers = [k \in {} |-> NoContainer]
    /\ nextId = 1
    /\ restored = {}
    /\ dirs \in {{SprintfPath(b, "web", n)} : b \in BaseDirs, n \in CheckpointNames}
    /\ metaFile = [k \in {} |-> NoMeta]
    /\ logFile = [k \in {} |-> ""]
    /\ images = {}
    /\ pc = [p \in Procs |-> IF p = MainProc THEN "rt_save" ELSE "idle"]
    /\ args = [p \in Procs |-> NoArgs]
    /\ \E i \in FactsSet : info = [p \in Procs |-> IF p = MainProc THEN i ELSE NoInfo]
    /\ metadata = [p \in Procs |-> <<>>]
    /\ \E d \in dirs : ckDir = [p \in Procs |-> IF p = MainProc THEN d ELSE ""]
    /\ workDir = [p \in Procs |-> <<>>]
    /\ calls = [p \in Procs |-> <<>>]
    /\ trace = [p \in Procs |-> <<>>]
    /\ out = [p \in Procs |-> <<>>]
    /\ exit = [p \in Procs |-> -1]
    /\ events = 0
    /\ alone = NoAlone

\* saveMetadata(info, checkpointDir), every file call succeeding
RoundTripSave(p) ==
    /\ pc[p] = "rt_save"
    /\ metaFile' = saveMetadata(metaFile, info[p], ckDir[p], "ok")
    /\ trace' = Append1(trace, p, Ev("savemeta", ckDir[p], TRUE))
    /\ pc' = [pc EXCEPT ![p] = "rt_load"]
    /\ UNCHANGED <<rtVars, dirs, logFile, images, args, metadata, info, ckDir, workDir,
                   calls, out, exit, events, alone>>

\* the metadata load of restoreContainer on the same directory
RoundTripLoad(p) ==
    /\ pc[p] = "rt_load"
    /\ \E r \in {LoadMetadata(metaFile, ckDir[p])} :
           /\ trace' = Append1(trace, p, Ev("loadmeta", filepathJoin(<<ckDir[p], "container.json">>),
                                            r.parseOk))
           /\ metadata' = [metadata EXCEPT ![p] = r.metadata]
    /\ pc' = [pc EXCEPT ![p] = "rt_done"]
    /\ UNCHANGED <<rtVars, fsVars, args, info, ckDir, workDir, calls, out, exit, events, alone>>

NextRoundTrip ==
    \/ RoundTripSave(MainProc)
    \/ RoundTripLoad(MainProc)

SpecRoundTrip == InitRoundTrip /\ [][NextRoundTrip]_vars

\* ------------------------------------------------ concurrent invocations
\* two invocations of the tool, one per process, each against its own
\* container and so its own checkpoint directory; when both have finished,
\* one of them is run once more, alone, from the state both started in
TargetOf(p) == IF p = MainProc THEN "web" ELSE "db"

\* the containers both invocations start with: docker run of web and of db
ContainersAtStart ==
    (MkId(1) :> RunContainer(1, "web", "", ""))
        @@ (MkId(2) :> RunContainer(2, "db", "/lab", "kata"))
NextIdAtStart == Cardinality(DOMAIN ContainersAtStart) + 1

\* the checkpoints both invocations start with: an earlier checkpoint of
\* each container under /ckpt, as checkpointContainer leaves it
DirAtStart(name) == filepathJoin(<<"/ckpt", name, "cp1">>)
DirsAtStart == {DirAtStart(TargetOf(p)) : p \in Procs}
MetaFileAtStart ==
    saveMetadata(
        saveMetadata([k \in {} |-> NoMeta],
                     inspectContainer(ContainersAtStart, "web", "ok").info,
                     DirAtStart("web"), "ok"),
        inspectContainer(ContainersAtStart, "db", "ok").info, DirAtStart("db"), "ok")
LogFileAtStart ==
    [f \in {filepathJoin(<<d, "dump.log">>) : d \in DirsAtStart} |-> "Dumping finished successfully"]

\* the flags of the two checkpoints: web is stopped after a pre-dump pass,
\* db is left running
OptionsOf(p) == IF p = MainProc THEN Opt(FALSE, FALSE, TRUE, TRUE) ELSE Opt(TRUE, TRUE, TRUE, FALSE)

InitConcurrent ==
    /\ containers = ContainersAtStart
    /\ nextId = NextIdAtStart
    /\ restored = {}
    /\ dirs = DirsAtStart
    /\ metaFile = MetaFileAtStart
    /\ logFile = LogFileAtStart
    /\ images = DirsAtStart
    /\ pc = [p \in Procs |-> "idle"]
    /\ args = [p \in Procs |-> NoArgs]
    /\ info = [p \in Procs |-> NoInfo]
    /\ metadata = [p \in Procs |-> <<>>]
    /\ ckDir = [p \in Procs |-> ""]
    /\ workDir = [p \in Procs |-> <<>>]
    /\ calls = [p \in Procs |-> <<>>]
    /\ trace = [p \in Procs |-> <<>>]
    /\ out = [p \in Procs |-> <<>>]
    /\ exit = [p \in Procs |-> -1]
    /\ events = 0
    /\ alone = NoAlone

\* the steps of checkpointContainer and of restoreContainer after main parsed
\* the command line
CheckpointStep(p) ==
    \/ checkpointContainer_inspect(p)
    \/ checkpointContainer_mkdir(p)
    \/ doCRIUCheckpoint_open(p)
    \/ doCRIUCheckpoint_preDumpCall(p)
    \/ doCRIUCheckpoint_preDumpReturn(p)
    \/ doCRIUCheckpoint_dumpCall(p)
    \/ doCRIUCheckpoint_dumpReturn(p)
    \/ checkpointContainer_saveMetadata(p)

RestoreStep(p) ==
    \/ restoreContainer_stat(p)
    \/ restoreContainer_loadMetadata(p)
    \/ restoreContainer_create(p)
    \/ restoreContainer_facts(p)
    \/ doCRIURestore_open(p)
    \/ doCRIURestore_restoreCall(p)
    \/ doCRIURestore_restoreReturn(p)
    \/ mainVerify(p)

\* process ids are the kernel's choice: two runs are compared on everything
\* but them
NoPids(o) == SelectSeq(o, LAMBDA e : ~HasPrefix(e.text, "  PID:        "))
NoPid(c) == [c EXCEPT !.Pid = IF @ = 0 THEN 0 ELSE 1]

\* the files of a checkpoint directory
DirContents(d) ==
    [exists |-> d \in dirs,
     listing |-> DirListing(d, dirs, metaFile, logFile, images),
     meta |-> IF filepathJoin(<<d, "container.json">>) \in DOMAIN metaFile
              THEN metaFile[filepathJoin(<<d, "container.json">>)] ELSE NoMeta,
     logs |-> [n \in {"dump.log", "restore.log"} |->
                 IF filepathJoin(<<d, n>>) \in DOMAIN logFile
                 THEN logFile[filepathJoin(<<d, n>>)] ELSE ""]]

\* the containers an invocation names: the one given by -container and, in
\* restore mode, the new one
ContainersOf(p) ==
    Resolve(containers, args[p].containerName) \cup Resolve(containers, args[p].newName)

\* what an invocation did and has before it: its outcome so far, what it handed
\* to the engine, its metadata, the contents of its checkpoint directory and
\* the state of its containers
View(p) ==
    [pc |-> pc[p], args |-> args[p], info |-> info[p], metadata |-> metadata[p],
     ckDir |-> ckDir[p], workDir |-> workDir[p], calls |-> calls[p], trace |-> trace[p],
     out |-> NoPids(out[p]), exit |-> exit[p],
     files |-> DirContents(filepathJoin(<<args[p].baseDir, args[p].containerName,
                                          args[p].checkpointName>>)),
     containers |-> [id \in ContainersOf(p) |-> NoPid(containers[id])]]

\* the invocation has taken a step that is not yet in its history
Pending(p) ==
    /\ pc[p] # "idle"
    /\ IF alone.hist[p] = <<>> THEN TRUE
       ELSE LET last == alone.hist[p][Len(alone.hist[p])]
            IN  last.pc # pc[p] \/ last.trace # trace[p] \/ last.calls # calls[p]

\* the history of the concurrent run: the view after each step of p
Record(p) ==
    /\ alone.who = 0
    /\ Pending(p)
    /\ alone' = [alone EXCEPT !.hist[p] = Append(@, View(p))]
    /\ UNCHANGED <<rtVars, fsVars, procVars, events>>

\* the ID the runtime gave the container the invocation created: the run
\* alone is given the same one
IdGiven(p) ==
    IF \E n \in 1..Len(HexDigit) : Resolve(containers, args[p].newName) = {MkId(n)}
    THEN CHOOSE n \in 1..Len(HexDigit) : Resolve(containers, args[p].newName) = {MkId(n)}
    ELSE NextIdAtStart

\* both invocations have finished: start invocation p again, alone, from the
\* state both started in
RunAlone(p) ==
    /\ alone.who = 0
    /\ \A q \in Procs : pc[q] = "done" /\ ~Pending(q)
    /\ alone' = [who |-> p,
                 hist |-> [q \in Procs |-> IF q = p THEN alone.hist[p] ELSE <<>>],
                 final |-> View(p),
                 beside |-> [q \in Procs \ {p} |-> [restore |-> args[q].restore,
                                                    exit |-> exit[q]]]]
    /\ containers' = ContainersAtStart
    /\ nextId' = IdGiven(p)
    /\ restored' = {}
    /\ dirs' = DirsAtStart
    /\ metaFile' = MetaFileAtStart
    /\ logFile' = LogFileAtStart
    /\ images' = DirsAtStart
    /\ pc' = [q \in Procs |-> IF q # p THEN "idle"
                              ELSE IF args[p].restore THEN "rs_stat" ELSE "ck_inspect"]
    /\ args' = [q \in Procs |-> IF q = p THEN args[p] ELSE NoArgs]
    /\ info' = [q \in Procs |-> NoInfo]
    /\ metadata' = [q \in Procs |-> <<>>]
    /\ ckDir' = [q \in Procs |-> ""]
    /\ workDir' = [q \in Procs |-> <<>>]
    /\ calls' = [q \in Procs |-> <<>>]
    /\ trace' = [q \in Procs |-> <<>>]
    /\ out' = [q \in Procs |-> IF q = p THEN SubSeq(out[p], 1, 1) ELSE <<>>]
    /\ exit' = [q \in Procs |-> -1]
    /\ UNCHANGED events

\* a step of the run alone that is the one the concurrent run took: the run
\* alone is where the concurrent run was after i steps of p, and its next state
\* is where the concurrent run was one step of p later
Along(p, step) ==
    /\ alone.who = p
    /\ \E i \in 1..(Len(alone.hist[p]) - 1) :
         /\ alone.hist[p][i].pc = pc[p]
         /\ alone.hist[p][i] = View(p)
         /\ step
         /\ alone.hist[p][i + 1].pc = pc'[p]
         /\ alone.hist[p][i + 1] = View(p)'

\* one more step of the run alone
StepAlone(p) == Along(p, CheckpointStep(p) \/ RestoreStep(p))

\* the run alone can take one more step; what the metadata load and the
\* metadata save return is worked out in the state the step starts in
CanStepAlone(p) ==
    IF pc[p] = "rs_loadmeta"
    THEN \E r \in {LoadMetadata(metaFile, ckDir[p])} :
             ENABLED Along(p, restoreContainer_loaded(p, r))
    ELSE IF pc[p] = "ck_save"
    THEN \E res \in SaveResults :
             \E saved \in {saveMetadata(metaFile, info[p], ckDir[p], res)} :
                 ENABLED Along(p, checkpointContainer_saved(p, res, saved))
    ELSE ENABLED StepAlone(p)

\* main of process p with the command line of its invocation
Invoke(p) ==
    \/ mainCheckpoint(p, TargetOf(p), "cp1", "/ckpt", OptionsOf(p))
    \/ mainRestore(p, TargetOf(p), "cp1", "/ckpt", "", OptionsOf(p))

\* a step of process p while the other process may be running too
StepBeside(p) ==
    /\ alone.who = 0
    /\ \A q \in Procs : ~Pending(q)
    /\ Invoke(p) \/ CheckpointStep(p) \/ RestoreStep(p)

NextConcurrent ==
    \/ \E p \in Procs : Record(p)
    \/ \E p \in Procs : StepBeside(p)
    \/ \E p \in Procs : RunAlone(p)
    \/ \E p \in Procs : StepAlone(p)

SpecConcurrent == InitConcurrent /\ [][NextConcurrent]_vars

\* ------------------------------------------- a container that stops by itself
\* the process of a running container exits while an invocation may be under
\* way, between two of its calls
ContainerStops(id) ==
    /\ id \in DOMAIN containers
    /\ containers[id].Running
    /\ ~AllIdle
    /\ containers' = [containers EXCEPT ![id].Running = FALSE, ![id].Pid = 0,
                                        ![id].Status = "exited"]
    /\ UNCHANGED <<nextId, restored, fsVars, procVars, events, alone>>

NextRacing ==
    \/ Next
    \/ \E id \in DOMAIN containers : ContainerStops(id)

SpecRacing == Init /\ [][NextRacing]_vars

\* ------------------------------------------------- every call returns
\* main is one goroutine making synchronous calls: once started, an invocation
\* goes on to its next statement whenever the call under way has returned
Invocation(p) == CheckpointStep(p) \/ RestoreStep(p)

\* the steps whose result is worked out before the step is taken (container.json
\* decoded or encoded, the container to restore into put together), and the
\* others
PreparedSteps == {"rs_loadmeta", "ck_save", "rs_create"}
PreparedStep(p) == pc[p] \in PreparedSteps /\ Invocation(p)
OtherStep(p) == pc[p] \notin PreparedSteps /\ Invocation(p)

\* ENABLED <<PreparedStep(p)>>_vars, the result worked out once, before the step
\* is looked at
CanPreparedStep(p) ==
    IF pc[p] = "rs_loadmeta"
    THEN \E r \in {LoadMetadata(metaFile, ckDir[p])} :
             ENABLED <<restoreContainer_loaded(p, r)>>_vars
    ELSE IF pc[p] = "ck_save"
    THEN \E res \in SaveResults :
             \E saved \in {saveMetadata(metaFile, info[p], ckDir[p], res)} :
                 ENABLED <<checkpointContainer_saved(p, res, saved)>>_vars
    ELSE IF pc[p] = "rs_create"
    THEN \E r \in CreateResults(p) : ENABLED <<restoreContainer_created(p, r)>>_vars
    ELSE FALSE

\* weak fairness of the invocation's steps; for the prepared steps it is
\* written out as []<>~ENABLED <<A>>_vars \/ []<><<A>>_vars
SpecFair ==
    /\ Init /\ [][Next]_vars
    /\ WF_vars(OtherStep(MainProc))
    /\ ([]<>(~CanPreparedStep(MainProc)) \/ []<><<PreparedStep(MainProc)>>_vars)

\* ----------------------------------------------------------------- claims
Running(p) == pc[p] # "idle"
IsCheckpoint(p) == Running(p) /\ ~args[p].restore
IsRestore(p) == Running(p) /\ args[p].restore
EngineOps(p) == [i \in 1..Len(calls[p]) |-> calls[p][i].op]
HasEv(p, op, ok) == \E i \in 1..Len(trace[p]) : trace[p][i].op = op /\ trace[p][i].ok = ok
HasOp(p, op) == \E i \in 1..Len(trace[p]) : trace[p][i].op = op
TraceOps(p) == [i \in 1..Len(trace[p]) |-> trace[p][i].op]
IsPrefix(s, t) == Len(s) <= Len(t) /\ s = SubSeq(t, 1, Len(s))
LastOut(p) == out[p][Len(out[p])]
FsUnchanged == UNCHANGED <<dirs, metaFile, logFile, images>>

\* C1: with PreDump set the engine's pre-dump runs exactly once, before the one
\* dump; a failed pre-dump ends the checkpoint as failed with no dump; with
\* PreDump unset the pre-dump never runs.
C1_PreDumpOnceBeforeDump ==
    \A p \in Procs : IsCheckpoint(p) =>
        /\ args[p].opts.PreDump => IsPrefix(EngineOps(p), <<"predump", "dump">>)
        /\ ~args[p].opts.PreDump => IsPrefix(EngineOps(p), <<"dump">>)
        /\ (Len(calls[p]) >= 2) => calls[p][1].status = "ok"
        /\ (calls[p] # <<>> /\ calls[p][1].op = "predump" /\ calls[p][1].status = "failed")
              => (Len(calls[p]) = 1 /\ pc[p] = "done" /\ exit[p] = 1)
        /\ (exit[p] = 0 /\ args[p].opts.PreDump) => EngineOps(p) = <<"predump", "dump">>

C1_Witness ==
    \E p \in Procs : /\ IsCheckpoint(p) /\ args[p].opts.PreDump /\ exit[p] = 0
                     /\ EngineOps(p) = <<"predump", "dump">>

\* the runtime has no running container for the identifier
NotCheckpointable(ident) ==
    \A id \in DOMAIN containers :
        (id = ident \/ SubSeq(id, 1, ShortIdLen) = ident \/ containers[id].Name = "/" \o ident)
            => ~containers[id].Running

\* C2: a checkpoint of a container that is absent or not running fails at once:
\* no engine operation, no checkpoint directory created or changed, no metadata.
C2_NoCheckpointUnlessRunning ==
    [][\A p \in Procs :
         (pc[p] = "ck_inspect" /\ pc'[p] # pc[p] /\ NotCheckpointable(args[p].containerName))
            => /\ pc'[p] = "done" /\ exit'[p] = 1
               /\ calls'[p] = <<>>
               /\ FsUnchanged
               /\ LastOut(p)'.fd = "stderr"]_vars

C2_Witness ==
    \E p \in Procs : /\ IsCheckpoint(p) /\ pc[p] = "done" /\ exit[p] = 1
                     /\ \E id \in DOMAIN containers :
                          /\ containers[id].Name = "/" \o args[p].containerName
                          /\ ~containers[id].Running
                     /\ Contains(LastOut(p).text, "is not running")

\* C3: a restore whose directory <base>/<container>/<checkpoint> is absent fails
\* at once: no container is created and the engine is not invoked.
C3_RestoreNeedsDirectory ==
    [][\A p \in Procs :
         (/\ pc[p] = "rs_stat" /\ pc'[p] # pc[p]
          /\ (args[p].baseDir \o "/" \o args[p].containerName \o "/" \o args[p].checkpointName)
                \notin dirs)
            => /\ pc'[p] = "done" /\ exit'[p] = 1
               /\ containers' = containers /\ nextId' = nextId
               /\ calls'[p] = <<>>
               /\ Contains(LastOut(p)'.text, "checkpoint does not exist")]_vars

C3_Witness ==
    \E p \in Procs : /\ IsRestore(p) /\ pc[p] = "done" /\ exit[p] = 1
                     /\ TraceOps(p) = <<"stat">> /\ ~trace[p][1].ok

RestoreSteps == <<"stat", "loadmeta", "create", "facts", "open", "restore", "verify">>

\* C4: a restore performs its steps in the one order locate, re-create, resolve
\* facts, engine restore, verify; a step runs only if all before it succeeded,
\* and the engine's restore is entered only after the new container was created.
C4_RestoreStepOrder ==
    \A p \in Procs : IsRestore(p) =>
        /\ IsPrefix(TraceOps(p), RestoreSteps)
        /\ \A i \in 1..(Len(trace[p]) - 1) : trace[p][i].ok
        /\ calls[p] # <<>> =>
              /\ EngineOps(p) = <<"restore">>
              /\ \E i \in 1..Len(trace[p]) :
                    /\ trace[p][i] = Ev("create", args[p].newName, TRUE)
                    /\ \E j \in (i + 1)..Len(trace[p]) : trace[p][j].op = "open"
              /\ \E id \in DOMAIN containers : containers[id].Name = "/" \o args[p].newName

C4_Witness ==
    \E p \in Procs : IsRestore(p) /\ pc[p] = "done" /\ TraceOps(p) = RestoreSteps

\* C5: when the engine's restore fails the invocation ends as failed and the
\* new container's state is never queried for verification.
C5_NoVerifyAfterFailedRestore ==
    \A p \in Procs :
        (IsRestore(p) /\ calls[p] # <<>> /\ calls[p][1].status = "failed")
            => /\ pc[p] = "done" /\ exit[p] = 1
               /\ ~HasOp(p, "verify")
               /\ LastOut(p).fd = "stderr"

C5_Witness ==
    \E p \in Procs : /\ IsRestore(p) /\ calls[p] # <<>> /\ calls[p][1].status = "failed"
                     /\ pc[p] = "done"

\* C6: a verification that finds the new container not running only warns: the
\* invocation exits with status 0, prints the warning on stdout, and leaves the
\* created container, the restored process and the files as they were.
C6_VerificationFailureIsWarning ==
    [][\A p \in Procs :
         (pc[p] = "rs_verify" /\ pc'[p] # pc[p] /\ NotCheckpointable(args[p].newName))
            => /\ pc'[p] = "done" /\ exit'[p] = 0
               /\ LastOut(p)'.fd = "stdout"
               /\ HasPrefix(LastOut(p)'.text, "Warning: Restoration verification failed")
               /\ \A i \in 1..Len(out'[p]) : out'[p][i].fd # "stderr"
               /\ containers' = containers /\ restored' = restored
               /\ FsUnchanged]_vars

C6_Witness ==
    \E p \in Procs : /\ IsRestore(p) /\ pc[p] = "done" /\ exit[p] = 0
                     /\ calls[p] # <<>> /\ calls[p][1].status = "ok"
                     /\ trace[p][Len(trace[p])] = Ev("verify", args[p].newName, FALSE)
                     /\ \E id \in DOMAIN containers :
                          containers[id].Name = "/" \o args[p].newName /\ ~containers[id].Running
                     /\ restored # {}

\* C7: when the dump fails and dump.log exists in the checkpoint directory, what
\* the checkpoint reports contains the log's contents character for character.
C7_DumpLogReported ==
    \A p \in Procs :
        (/\ IsCheckpoint(p) /\ pc[p] = "done"
         /\ calls[p] # <<>> /\ calls[p][Len(calls[p])] .op = "dump"
         /\ calls[p][Len(calls[p])].status = "failed"
         /\ (ckDir[p] \o "/dump.log") \in DOMAIN logFile)
            => \E i \in 1..Len(out[p]) : Contains(out[p][i].text, logFile[ckDir[p] \o "/dump.log"])

C7_Witness ==
    \E p \in Procs :
        /\ IsCheckpoint(p) /\ pc[p] = "done"
        /\ calls[p] # <<>> /\ calls[p][Len(calls[p])].op = "dump"
        /\ calls[p][Len(calls[p])].status = "failed"
        /\ (ckDir[p] \o "/dump.log") \in DOMAIN logFile
        /\ logFile[ckDir[p] \o "/dump.log"] \in LogTexts

Placeholder(c) ==
    /\ c.Config = [Image |-> "alpine:latest", Cmd |-> <<"sleep", "infinity">>, Hostname |-> ""]
    /\ c.HostConfig = [Runtime |-> "", CgroupParent |-> "", Privileged |-> TRUE, PidMode |-> "host"]

\* C8: in a restore whose original container is gone the privileged placeholder
\* is created under the new name, its facts resolve with process id 0 and an
\* empty namespace map, never failing as not running, and the engine's restore
\* is then invoked.
C8_FallbackRestore ==
    \A p \in Procs :
        (IsRestore(p) /\ HasEv(p, "create", TRUE)
         /\ \A id \in DOMAIN containers : containers[id].Name # "/" \o args[p].containerName
                                          /\ SubSeq(id, 1, ShortIdLen) # args[p].containerName)
            => /\ \E id \in DOMAIN containers :
                     containers[id].Name = "/" \o args[p].newName /\ Placeholder(containers[id])
               /\ HasEv(p, "facts", TRUE) =>
                     /\ info[p].PID = 0 /\ DOMAIN info[p].Namespaces = {}
                     /\ \E id \in DOMAIN containers :
                           /\ containers[id].Name = "/" \o args[p].newName
                           /\ info[p].ID = SubSeq(id, 1, ShortIdLen)
               /\ HasEv(p, "facts", FALSE) => ~Contains(LastOut(p).text, "is not running")
               /\ (HasEv(p, "open", TRUE) /\ pc[p] # "rs_restore") =>
                     /\ EngineOps(p) = <<"restore">>
                     /\ calls[p][1].cfg.Pid = <<>>

C8_Witness ==
    \E p \in Procs :
        /\ IsRestore(p) /\ pc[p] = "rs_restoring"
        /\ \A id \in DOMAIN containers : containers[id].Name # "/" \o args[p].containerName
        /\ \E id \in DOMAIN containers :
              containers[id].Name = "/" \o args[p].newName /\ Placeholder(containers[id])
                 /\ ~containers[id].Running
        /\ info[p].PID = 0

\* C9: container.json is written at most once per checkpoint invocation, and
\* only after the engine's dump returned success.
C9_MetadataOnlyAfterDump ==
    [][/\ metaFile' # metaFile =>
             \E p \in Procs : pc[p] = "ck_save" /\ pc'[p] = "done" /\ ~args[p].restore
       /\ \A p \in Procs :
             (trace'[p] # trace[p] /\ trace'[p] # <<>>
              /\ trace'[p][Len(trace'[p])].op = "savemeta")
                => /\ ~HasOp(p, "savemeta")
                   /\ calls[p] # <<>>
                   /\ calls[p][Len(calls[p])].op = "dump"
                   /\ calls[p][Len(calls[p])].status = "ok"
                   /\ trace[p][Len(trace[p])] = Ev("dump", ckDir[p], TRUE)]_vars

C9_Witness ==
    \E p \in Procs : /\ IsCheckpoint(p) /\ pc[p] = "done" /\ exit[p] = 0
                     /\ trace[p][Len(trace[p])] = Ev("savemeta", ckDir[p], TRUE)
                     /\ (ckDir[p] \o "/container.json") \in DOMAIN metaFile

\* C10 as claimed: once container.json exists in a directory no later operation
\* changes it (operations that end in a failure are set aside).
C10_WriteOnce_Claimed ==
    [][(\A p \in Procs : exit'[p] # 1)
          => \A f \in DOMAIN metaFile : f \in DOMAIN metaFile' /\ metaFile'[f] = metaFile[f]]_vars

\* C10 amended: an existing container.json is never removed, and it is changed
\* only by saveMetadata of a later checkpoint into the same directory, after that
\* checkpoint's dump succeeded; no restore and no failed checkpoint changes it.
C10_ChangedOnlyByLaterCheckpoint ==
    [][\A f \in DOMAIN metaFile :
          /\ f \in DOMAIN metaFile'
          /\ metaFile'[f] # metaFile[f] =>
                \E p \in Procs :
                   /\ ~args[p].restore /\ pc[p] = "ck_save"
                   /\ f = args[p].baseDir \o "/" \o info[p].Name \o "/" \o args[p].checkpointName
                          \o "/container.json"
                   /\ calls[p][Len(calls[p])].op = "dump"
                   /\ calls[p][Len(calls[p])].status = "ok"]_vars

C10_Witness ==
    \E p \in Procs :
        /\ IsCheckpoint(p) /\ pc[p] = "done" /\ exit[p] = 0
        /\ (ckDir[p] \o "/restore.log") \in DOMAIN logFile
        /\ metaFile[ckDir[p] \o "/container.json"] = Encode(MetadataOf(info[p]))
\* C11 as claimed: a restore whose directory exists but whose container.json is
\* missing or unparseable still goes on to re-create the container.
C11_BestEffort_Claimed ==
    \A p \in Procs :
        (IsRestore(p) /\ pc[p] = "done" /\ HasEv(p, "stat", TRUE) /\ HasEv(p, "loadmeta", FALSE))
            => HasOp(p, "create")

\* C11: metadata loading decides whether a restore continues: when the directory
\* exists but container.json is missing or unparseable the restore ends as
\* failed with the read or parse error, with no container created and no engine
\* operation; the restore reaches container creation only after a successful load.
C11_MetadataLoadIsFatal ==
    \A p \in Procs : IsRestore(p) =>
        /\ HasEv(p, "loadmeta", FALSE) =>
              /\ pc[p] = "done" /\ exit[p] = 1
              /\ ~HasOp(p, "create") /\ calls[p] = <<>>
              /\ LastOut(p).fd = "stderr"
              /\ \/ Contains(LastOut(p).text, "failed to read metadata")
                 \/ Contains(LastOut(p).text, "failed to parse metadata")
        /\ (HasOp(p, "create") \/ pc[p] = "rs_create") => HasEv(p, "loadmeta", TRUE)

C11_Witness ==
    \E p \in Procs : /\ IsRestore(p) /\ pc[p] = "done" /\ exit[p] = 1
                     /\ HasEv(p, "stat", TRUE) /\ HasEv(p, "loadmeta", FALSE)
                     /\ Contains(LastOut(p).text, "failed to parse metadata")

\* C12 as claimed: the container.json of a successful checkpoint holds exactly the
\* fields id, name, runtime, rootfs, bundle_path, namespaces, cgroup_path and
\* timestamp.
C12_MetadataFields_Claimed ==
    \A p \in Procs :
        (IsCheckpoint(p) /\ pc[p] = "done" /\ exit[p] = 0) =>
            LET metadataFile == filepathJoin(<<ckDir[p], "container.json">>)
            IN  /\ metadataFile \in DOMAIN metaFile
                /\ Unmarshal(metaFile[metadataFile]).err = ""
                /\ DOMAIN Unmarshal(metaFile[metadataFile]).metadata =
                      {"id", "name", "runtime", "rootfs", "bundle_path", "namespaces",
                       "cgroup_path", "timestamp"}

\* C13: for every facts record, a metadata load right after a successful save on
\* the same checkpoint directory parses and gives back the id, name, runtime,
\* rootfs, bundle path, namespace map and cgroup path that were saved, and
\* nothing else
C13_RoundTrip ==
    \A p \in Procs :
        pc[p] = "rt_done" =>
            /\ trace[p][Len(trace[p])] =
                   Ev("loadmeta", filepathJoin(<<ckDir[p], "container.json">>), TRUE)
            /\ DOMAIN metadata[p] = {"id", "name", "runtime", "rootfs", "bundle_path",
                                     "namespaces", "cgroup_path"}
            /\ metadata[p]["id"] = info[p].ID
            /\ metadata[p]["name"] = info[p].Name
            /\ metadata[p]["runtime"] = info[p].Runtime
            /\ metadata[p]["rootfs"] = info[p].RootFS
            /\ metadata[p]["bundle_path"] = info[p].BundlePath
            /\ DOMAIN metadata[p]["namespaces"] = DOMAIN info[p].Namespaces
            /\ \A ns \in DOMAIN info[p].Namespaces :
                   metadata[p]["namespaces"][ns] = info[p].Namespaces[ns]
            /\ metadata[p]["cgroup_path"] = info[p].CgroupPath

\* a record whose strings need escaping went through save and load
C13_Witness ==
    /\ pc[MainProc] = "rt_done"
    /\ Contains(info[MainProc].CgroupPath, "\\")
    /\ Contains(info[MainProc].RootFS, "<")
    /\ Cardinality(DOMAIN info[MainProc].Namespaces) = Len(NsTypes)
    /\ metadata[MainProc]["cgroup_path"] = info[MainProc].CgroupPath
    /\ Contains(metaFile[filepathJoin(<<ckDir[MainProc], "container.json">>)], "\\u003c")

\* the mount points of the Mount Classification Table, in its order
MountPaths ==
    <<"/proc", "/dev", "/sys", "/dev/shm", "/dev/pts", "/dev/mqueue", "/etc/hostname",
      "/etc/hosts", "/etc/resolv.conf", "/sys/fs/cgroup">>
CallsOf(p, op) == {i \in 1..Len(calls[p]) : calls[p][i].op = op}

\* C14: in every mode (pre-dump, dump, restore), whatever the container and the
\* options, the external-mount list handed to the engine is the same ordered
\* list of ten mounts: /proc, /dev, /sys, /dev/shm, /dev/pts, /dev/mqueue,
\* /etc/hostname, /etc/hosts, /etc/resolv.conf and /sys/fs/cgroup
C14_ExternalMountsFixed ==
    \A p \in Procs : \A i \in 1..Len(calls[p]) :
        LET ext == calls[p][i].cfg.External
        IN  /\ Len(ext) = Len(MountPaths)
            /\ \A k \in 1..Len(MountPaths) : HasPrefix(ext[k], "mnt[" \o MountPaths[k] \o "]:")

\* a restore call was made on a directory in which a dump wrote its log
C14_Witness ==
    \E p \in Procs :
        /\ CallsOf(p, "restore") # {}
        /\ filepathJoin(<<ckDir[p], "dump.log">>) \in DOMAIN logFile
        /\ Len(calls[p][1].cfg.External) = Len(MountPaths)

\* C15: whatever the options, the configuration of the pre-dump has
\* established-tcp capture off and memory tracking on, and equals the
\* configuration of the dump of the same invocation in every other field
C15_PreDumpConfig ==
    \A p \in Procs : \A i \in CallsOf(p, "predump") :
        /\ calls[p][i].cfg.TcpEstablished = <<FALSE>>
        /\ calls[p][i].cfg.TrackMem = <<TRUE>>
        /\ \A j \in CallsOf(p, "dump") :
               /\ DOMAIN calls[p][i].cfg = DOMAIN calls[p][j].cfg
               /\ \A f \in DOMAIN calls[p][j].cfg \ {"TcpEstablished", "TrackMem"} :
                      calls[p][i].cfg[f] = calls[p][j].cfg[f]
               /\ calls[p][j].cfg.TcpEstablished = <<args[p].opts.TCPEstablished>>
               /\ calls[p][j].cfg.TrackMem = <<>>

\* a pre-dump and a dump of one invocation whose options ask for established tcp
C15_Witness ==
    \E p \in Procs :
        /\ args[p].opts.TCPEstablished
        /\ CallsOf(p, "predump") # {}
        /\ CallsOf(p, "dump") # {}
        /\ calls[p][1].cfg.TcpEstablished # calls[p][2].cfg.TcpEstablished

\* C16: whatever the options, the configuration of a restore has established-tcp
\* and file-lock capture on, the detached and the sibling flag set, and no
\* target process id
C16_RestoreConfig ==
    \A p \in Procs : \A i \in CallsOf(p, "restore") :
        /\ calls[p][i].cfg.TcpEstablished = <<TRUE>>
        /\ calls[p][i].cfg.FileLocks = <<TRUE>>
        /\ calls[p][i].cfg.RestoreDetached = <<TRUE>>
        /\ calls[p][i].cfg.RstSibling = <<TRUE>>
        /\ calls[p][i].cfg.Pid = <<>>

\* a restore run with -tcp=false -file-locks=false reached the engine
C16_Witness ==
    \E p \in Procs :
        /\ args[p].restore
        /\ ~args[p].opts.TCPEstablished /\ ~args[p].opts.FileLocks
        /\ CallsOf(p, "restore") # {}
        /\ calls[p][1].cfg.FileLocks = <<TRUE>>

\* C17: the cgroup roots of the dump configuration are two entries, cpu and
\* memory, both with the facts' cgroup path when that is not empty and with
\* /docker/<12-character short id> otherwise
C17_DumpCgroupRoots ==
    \A p \in Procs : \A i \in CallsOf(p, "dump") :
        LET roots == calls[p][i].cfg.CgRoot
        IN  /\ Len(roots) = 2
            /\ roots[1].Ctrl = "cpu" /\ roots[2].Ctrl = "memory"
            /\ roots[1].Path = roots[2].Path
            /\ Len(info[p].ID) = ShortIdLen
            /\ roots[1].Path = IF info[p].CgroupPath # "" THEN info[p].CgroupPath
                               ELSE "/docker/" \o info[p].ID

\* a dump of a container that was started under a cgroup parent
C17_Witness ==
    \E p \in Procs :
        /\ CallsOf(p, "dump") # {}
        /\ info[p].CgroupPath # ""
        /\ calls[p][Len(calls[p])].cfg.CgRoot[2].Path = info[p].CgroupPath

\* C18: the dump configuration takes established-tcp, file-locks and
\* leave-running from the options and always has cgroup management and
\* shell-job on; when the dump succeeds the target container is left running
\* exactly if leave-running is set
C18_DumpFlags ==
    [][\A p \in Procs :
          (pc[p] = "ck_dumping" /\ pc'[p] = "ck_save") =>
              LET cfg == calls[p][Len(calls[p])].cfg
              IN  /\ cfg.TcpEstablished = <<args[p].opts.TCPEstablished>>
                  /\ cfg.FileLocks = <<args[p].opts.FileLocks>>
                  /\ cfg.LeaveRunning = <<args[p].opts.LeaveRunning>>
                  /\ cfg.ManageCgroups = <<TRUE>>
                  /\ cfg.ShellJob = <<TRUE>>
                  /\ \E id \in DOMAIN containers :
                         /\ SubSeq(id, 1, ShortIdLen) = info[p].ID
                         /\ containers[id].Running
                         /\ containers'[id].Running = args[p].opts.LeaveRunning]_vars

\* a dump with leave-running off succeeded and the container is stopped
C18_Witness ==
    \E p \in Procs :
        /\ pc[p] = "ck_save"
        /\ ~args[p].opts.LeaveRunning
        /\ \E id \in DOMAIN containers :
               SubSeq(id, 1, ShortIdLen) = info[p].ID /\ ~containers[id].Running

\* C20: the image-directory handle is open while an engine operation is in
\* progress, and closed once doCRIUCheckpoint or doCRIURestore has returned, on
\* success as after a failed pre-dump, dump or restore
C20_HandleOpenOnlyDuringEngine ==
    \A p \in Procs :
        /\ (calls[p] # <<>> /\ calls[p][Len(calls[p])].status = "running")
               => workDir[p] = <<ckDir[p]>>
        /\ pc[p] \in {"ck_save", "rs_verify", "done", "idle"} => workDir[p] = <<>>

\* a checkpoint whose pre-dump failed has ended
C20_Witness ==
    \E p \in Procs :
        /\ pc[p] = "done"
        /\ HasEv(p, "predump", FALSE)
        /\ workDir[p] = <<>>

\* C19: two invocations running concurrently against different containers
\* (each names its own container and creates its own new one) and so distinct
\* checkpoint directories do not interfere: whatever the interleaving, the
\* invocation run alone from the same start can take the same steps, one by
\* one, and ends with the same exit status and output, the same engine
\* configurations, the same metadata and the same directory contents
C19_NoInterference ==
    alone.who \in Procs =>
        IF pc[alone.who] = "done"
        THEN View(alone.who) = alone.final
        ELSE CanStepAlone(alone.who)

\* both invocations ran to success concurrently, a checkpoint that stops web
\* and a restore of db, and the restore has been run again alone to its end
C19_Witness ==
    /\ alone.who \in Procs
    /\ alone.who # MainProc
    /\ pc[alone.who] = "done"
    /\ alone.final.args.restore
    /\ alone.final.exit = 0
    /\ View(alone.who) = alone.final
    /\ \E i \in 1..Len(alone.final.trace) :
         alone.final.trace[i].op = "restore" /\ alone.final.trace[i].ok
    /\ ~alone.beside[MainProc].restore
    /\ alone.beside[MainProc].exit = 0

\* C21: no retry: within one invocation each engine operation (pre-dump, dump,
\* restore) is invoked at most once, and a failed engine operation is the last
\* thing the invocation does: no engine operation and no metadata write follows.
C21_NoRetry ==
    \A p \in Procs : Running(p) =>
        /\ \A op \in {"predump", "dump", "restore"} : Cardinality(CallsOf(p, op)) <= 1
        /\ \A i \in 1..Len(calls[p]) :
               calls[p][i].status = "failed"
                  => /\ i = Len(calls[p])
                     /\ pc[p] = "done" /\ exit[p] = 1
                     /\ ~HasOp(p, "savemeta")
                     /\ trace[p][Len(trace[p])] = Ev(calls[p][i].op, ckDir[p], FALSE)

\* a pre-dump that failed, after which the invocation ended
C21_Witness ==
    \E p \in Procs :
        /\ IsCheckpoint(p) /\ pc[p] = "done"
        /\ EngineOps(p) = <<"predump">>
        /\ calls[p][1].status = "failed"
        /\ filepathJoin(<<ckDir[p], "dump.log">>) \in DOMAIN logFile

\* the containers the runtime has after the step and had not before it
Created == {id \in DOMAIN containers' : id \notin DOMAIN containers}
\* the original container of restore p, as the runtime resolves the identifier
Original(p) == containers[CHOOSE id \in Resolve(containers, args[p].containerName) : TRUE]

RestoreLooksIn(a) == filepathJoin(<<a.baseDir, a.containerName, a.checkpointName>>)

\* C23 as claimed: a restore given the base directory, container identifier
\* (name or id) and checkpoint name of an earlier successful checkpoint does not
\* fail with checkpoint-not-found: when a checkpoint ends successfully the
\* directory that a restore given the same three arguments looks in exists, no
\* step removes a directory, and a restore that finds its directory does not
\* report checkpoint-not-found.
C23_RestoreLocatesCheckpoint_Claimed ==
    [][/\ \A d \in dirs : d \in dirs'
       /\ \A p \in Procs :
             (pc[p] = "ck_save" /\ pc'[p] = "done" /\ exit'[p] = 0)
                => CheckpointExists(dirs', RestoreLooksIn(args[p]))
       /\ \A p \in Procs :
             (/\ pc[p] = "rs_stat" /\ pc'[p] # pc[p]
              /\ CheckpointExists(dirs, RestoreLooksIn(args[p])))
                => ~Contains(LastOut(p)'.text, "checkpoint does not exist")]_vars

\* C24 as claimed: every dump and pre-dump is invoked with a strictly positive
\* target process id, and the facts it was built from have a strictly positive
\* process id and the state of a running container.
C24_PositivePid_Claimed ==
    \A p \in Procs : \A i \in CallsOf(p, "dump") \cup CallsOf(p, "predump") :
        /\ calls[p][i].cfg.Pid = <<info[p].PID>>
        /\ info[p].PID > 0
        /\ info[p].State = "running"

\* what the step added to the output of p
NewOut(p) == SubSeq(out'[p], Len(out[p]) + 1, Len(out'[p]))
Verified(o) == o.text = "Restoration verified successfully!\n"
VerificationFailed(o) == HasPrefix(o.text, "Warning: Restoration verification failed")

\* C25: a restore whose engine restore succeeded goes on to the verification
\* and ends in exactly one of Verified and VerificationFailed; it is Verified
\* exactly when the runtime reported the new container as running, whatever
\* the log-tail query and the statistics query did.
C25_VerifiedIffRunning ==
    [][\A p \in Procs :
         (/\ IsRestore(p) /\ calls[p] # <<>> /\ calls[p][1].status = "ok"
          /\ pc[p] # "done" /\ pc'[p] # pc[p])
            => /\ pc[p] = "rs_verify" /\ pc'[p] = "done" /\ exit'[p] = 0
               /\ Verified(LastOut(p)') # VerificationFailed(LastOut(p)')
               /\ Verified(LastOut(p)') <=>
                     \E i \in 1..Len(NewOut(p)) : NewOut(p)[i] = Stdout("  Running:    true\n")
               /\ Verified(LastOut(p)') =>
                     \E id \in Resolve(containers, args[p].newName) : containers[id].Running
               /\ Verified(LastOut(p)') <=>
                     trace'[p][Len(trace'[p])] = Ev("verify", args[p].newName, TRUE)
               /\ \A i \in 1..(Len(NewOut(p)) - 1) :
                     ~Verified(NewOut(p)[i]) /\ ~VerificationFailed(NewOut(p)[i])]_vars

\* a restore was verified although the log-tail query and the statistics query
\* both failed
C25_Witness ==
    \E p \in Procs :
        /\ IsRestore(p) /\ pc[p] = "done" /\ exit[p] = 0
        /\ calls[p] # <<>> /\ calls[p][1].status = "ok"
        /\ Verified(LastOut(p))
        /\ \A i \in 1..Len(out[p]) :
              /\ out[p][i] # Stdout("\nRecent container logs:\n")
              /\ out[p][i] # Stdout("\nContainer is responding to API calls\n")

\* C26 as claimed: the creation step of a restore creates the placeholder only
\* when the original container no longer exists; when the original exists and
\* its inspection fails the restore ends as failed with no container created
\* and no engine operation.
C26_PlaceholderOnlyWhenGone_Claimed ==
    [][\A p \in Procs :
         (/\ pc[p] = "rs_create" /\ pc'[p] # pc[p]
          /\ Resolve(containers, args[p].containerName) # {})
            => /\ \A id \in Created : ~Placeholder(containers'[id])
               /\ (\E i \in 1..Len(NewOut(p)) :
                      HasPrefix(NewOut(p)[i].text, "Warning: Original container not found"))
                     => /\ Created = {}
                        /\ pc'[p] = "done" /\ exit'[p] = 1
                        /\ calls'[p] = <<>>]_vars

\* C27 as claimed: when the pre-dump fails and the engine's log file dump.log
\* exists in the checkpoint directory, what the checkpoint reports contains the
\* log's contents, as it does for a failed dump.
C27_PreDumpLogReported_Claimed ==
    \A p \in Procs :
        (/\ IsCheckpoint(p) /\ pc[p] = "done"
         /\ calls[p] # <<>> /\ calls[p][Len(calls[p])].op = "predump"
         /\ calls[p][Len(calls[p])].status = "failed"
         /\ filepathJoin(<<ckDir[p], "dump.log">>) \in DOMAIN logFile)
            => \E i \in 1..Len(out[p]) :
                  Contains(out[p][i].text, logFile[filepathJoin(<<ckDir[p], "dump.log">>)])

\* the restore of p ended with a failed engine call
RestoreCallFailed(p) ==
    /\ IsRestore(p) /\ pc[p] = "done"
    /\ calls[p] # <<>> /\ calls[p][Len(calls[p])].op = "restore"
    /\ calls[p][Len(calls[p])].status = "failed"

\* C28: when the engine's restore fails the failure is reported; if restore.log
\* exists in the checkpoint directory the report includes its contents, and not
\* those of dump.log; if it does not exist the report has no log contents.
C28_RestoreLogReported ==
    \A p \in Procs : RestoreCallFailed(p) =>
        LET restoreLog == filepathJoin(<<ckDir[p], "restore.log">>)
            dumpLog == filepathJoin(<<ckDir[p], "dump.log">>)
            logLines == {i \in 1..Len(out[p]) : HasPrefix(out[p][i].text, "CRIU restore log:\n")}
        IN  /\ exit[p] = 1
            /\ LastOut(p).fd = "stderr"
            /\ Contains(LastOut(p).text, "CRIU restore failed")
            /\ IF restoreLog \in DOMAIN logFile
               THEN /\ logLines = {Len(out[p]) - 1}
                    /\ \A i \in logLines :
                          out[p][i].text = "CRIU restore log:\n" \o logFile[restoreLog] \o "\n"
                    /\ (dumpLog \in DOMAIN logFile /\ logFile[dumpLog] # logFile[restoreLog])
                          => \A i \in 1..Len(out[p]) : ~Contains(out[p][i].text, logFile[dumpLog])
               ELSE logLines = {}

\* a failed restore reported restore.log from a directory whose dump.log reads
\* differently
C28_Witness ==
    \E p \in Procs :
        /\ RestoreCallFailed(p)
        /\ filepathJoin(<<ckDir[p], "restore.log">>) \in DOMAIN logFile
        /\ filepathJoin(<<ckDir[p], "dump.log">>) \in DOMAIN logFile
        /\ logFile[filepathJoin(<<ckDir[p], "dump.log">>)] #
              logFile[filepathJoin(<<ckDir[p], "restore.log">>)]
        /\ Contains(out[p][Len(out[p]) - 1].text, logFile[filepathJoin(<<ckDir[p], "restore.log">>)])

\* C29: the pre-dump leaves the dump configuration as it was built: the dump
\* that follows a pre-dump is invoked with the configuration of a dump without
\* pre-dump, established-tcp capture as the user's option says and memory
\* tracking not set.
C29_DumpConfigUntouchedByPreDump ==
    \A p \in Procs : \A j \in CallsOf(p, "dump") :
        CallsOf(p, "predump") # {} =>
            /\ \A i \in CallsOf(p, "predump") : i < j /\ calls[p][i].status = "ok"
            /\ calls[p][j].cfg =
                  DumpOpts(info[p], [args[p].opts EXCEPT !.PreDump = FALSE], <<ckDir[p]>>)
            /\ calls[p][j].cfg.TcpEstablished = <<args[p].opts.TCPEstablished>>
            /\ calls[p][j].cfg.TrackMem = <<>>

\* a dump with established-tcp capture was invoked after a successful pre-dump
\* that had it off and tracked memory
C29_Witness ==
    \E p \in Procs :
        /\ IsCheckpoint(p) /\ args[p].opts.PreDump /\ args[p].opts.TCPEstablished
        /\ EngineOps(p) = <<"predump", "dump">>
        /\ calls[p][1].status = "ok"
        /\ calls[p][1].cfg.TrackMem = <<TRUE>> /\ calls[p][1].cfg.TcpEstablished = <<FALSE>>
        /\ calls[p][2].cfg.TrackMem = <<>> /\ calls[p][2].cfg.TcpEstablished = <<TRUE>>

\* C30: the configuration of the engine's restore is determined by the newly
\* created container and the checkpoint directory alone: it is the restore
\* configuration of that container's facts, with the container's merged
\* directory as filesystem root and its cgroup parent, or /docker/<short id>
\* when it has none, as cgroup-root path, whatever container.json holds.
C30_RestoreConfigFromNewContainer ==
    \A p \in Procs : \A j \in CallsOf(p, "restore") :
        \E id \in DOMAIN containers :
            LET c == containers[id]
                short == SubSeq(id, 1, ShortIdLen)
                parent == c.HostConfig.CgroupParent
                facts == [NoInfo EXCEPT !.ID = short, !.RootFS = c.MergedDir,
                                        !.CgroupPath = parent]
            IN  /\ c.Name = "/" \o args[p].newName
                /\ calls[p][j].cfg = RestoreOpts(facts, <<ckDir[p]>>)
                /\ calls[p][j].cfg.Root = <<c.MergedDir>>
                /\ calls[p][j].cfg.CgRoot =
                      CgRootOf(IF parent = "" THEN "/docker/" \o short ELSE parent)

\* a restore was invoked from a container.json whose id, filesystem root and
\* cgroup path all differ from those the configuration carries
C30_Witness ==
    \E p \in Procs :
        /\ CallsOf(p, "restore") # {}
        /\ metadata[p]["cgroup_path"] = "/lab"
        /\ metadata[p]["id"] # info[p].ID
        /\ <<metadata[p]["rootfs"]>> # calls[p][1].cfg.Root
        /\ calls[p][1].cfg.CgRoot = CgRootOf("/docker/" \o info[p].ID)

\* the last engine call of p was entered by this step and is a pre-dump or dump
EntersCheckpointCall(p) ==
    /\ Len(calls'[p]) = Len(calls[p]) + 1
    /\ calls'[p][Len(calls'[p])].op \in {"predump", "dump"}

\* C31 as claimed: also when the container may stop between two steps of the
\* tool, a pre-dump or dump is entered only while the target container is
\* running, with the process id the container has at that moment.
C31_EngineOnLiveProcess_Claimed ==
    [][\A p \in Procs :
         EntersCheckpointCall(p) =>
            \E id \in Resolve(containers, args[p].containerName) :
                /\ containers[id].Running
                /\ calls'[p][Len(calls'[p])].cfg.Pid = <<containers[id].Pid>>]_vars

\* the steps of a restore up to the call of the engine
BeforeRestoreCall == {"rs_stat", "rs_loadmeta", "rs_create", "rs_facts", "rs_open", "rs_restore"}

\* C32: no step of a restore up to the engine call starts a container: the
\* container it creates is not running from its creation until the engine's
\* restore is invoked, and the facts handed to the restore configuration have
\* process id 0 and an empty namespace map.
C32_NewContainerNotStarted ==
    [][\A p \in Procs :
         (IsRestore(p) /\ pc[p] \in BeforeRestoreCall /\ pc'[p] # pc[p])
            => /\ \A id \in DOMAIN containers :
                     id \in DOMAIN containers' /\ containers'[id].Running = containers[id].Running
               /\ \A id \in Created : ~containers'[id].Running /\ containers'[id].Pid = 0
               /\ pc'[p] \in {"rs_facts", "rs_open", "rs_restore", "rs_restoring"} =>
                     \E id \in DOMAIN containers' :
                        /\ containers'[id].Name = "/" \o args[p].newName
                        /\ ~containers'[id].Running
               /\ pc'[p] \in {"rs_open", "rs_restore", "rs_restoring"} =>
                     /\ info'[p].PID = 0
                     /\ DOMAIN info'[p].Namespaces = {}
                     /\ info'[p].Name = args[p].newName]_vars

\* the engine's restore was invoked for the not started copy of an original
\* that is still running
C32_Witness ==
    \E p \in Procs : \E o \in DOMAIN containers, c \in DOMAIN containers :
        /\ IsRestore(p) /\ pc[p] = "rs_restoring"
        /\ containers[o].Name = "/" \o args[p].containerName /\ containers[o].Running
        /\ containers[c].Name = "/" \o args[p].newName
        /\ ~containers[c].Running /\ containers[c].Status = "created"
        /\ ~Placeholder(containers[c])
        /\ info[p].ID = SubSeq(c, 1, ShortIdLen)
        /\ info[p].PID = 0 /\ DOMAIN info[p].Namespaces = {}

\* C33 as claimed: after a successful checkpoint, whatever identifier (name or
\* id) was given, the path reported as "Checkpoint stored in" is the directory
\* <base>/<container name>/<checkpoint name> that holds the images and
\* container.json, and the listing that follows shows its contents.
C33_ReportedPathIsCheckpointDir_Claimed ==
    \A p \in Procs :
        (IsCheckpoint(p) /\ pc[p] = "done" /\ exit[p] = 0) =>
            LET checkpointDir == filepathJoin(<<args[p].baseDir, info[p].Name,
                                                args[p].checkpointName>>)
            IN  /\ checkpointDir = ckDir[p]
                /\ checkpointDir \in images
                /\ filepathJoin(<<checkpointDir, "container.json">>) \in DOMAIN metaFile
                /\ \E i \in 1..Len(out[p]) :
                      out[p][i] = Stdout("\nCheckpoint stored in: " \o checkpointDir \o "\n")
                /\ \E i \in 1..Len(out[p]) : out[p][i] = Stdout("  container.json\n")

\* the runtime has a container of this name
NameTaken(cs, name) == \E id \in DOMAIN cs : cs[id].Name = "/" \o name

\* C34: a restore performs no rollback: no step of a restore, its failures and
\* its end included, removes a container, so the container created under the
\* new name outlives the invocation; and a restore that reaches container
\* creation while the new name is taken fails there, creating nothing and not
\* invoking the engine.
C34_NoRollback ==
    [][\A p \in Procs :
         (IsRestore(p) /\ pc'[p] # pc[p])
            => /\ \A id \in DOMAIN containers :
                     /\ id \in DOMAIN containers'
                     /\ containers'[id].Name = containers[id].Name
               /\ (HasEv(p, "create", TRUE) \/ Created # {})
                     => NameTaken(containers', args[p].newName)
               /\ (pc[p] = "rs_create" /\ NameTaken(containers, args[p].newName))
                     => /\ containers' = containers
                        /\ pc'[p] = "done" /\ exit'[p] = 1
                        /\ calls'[p] = <<>>
                        /\ LastOut(p)'.fd = "stderr"
                        /\ Contains(LastOut(p)'.text, "failed to create container for restore")]_vars

\* a restore failed at container creation on the name that an earlier restore,
\* whose engine call failed, had left behind
C34_Witness ==
    \E p \in Procs :
        /\ IsRestore(p) /\ pc[p] = "done" /\ exit[p] = 1
        /\ trace[p] # <<>>
        /\ trace[p][Len(trace[p])] = Ev("create", args[p].newName, FALSE)
        /\ calls[p] = <<>>
        /\ Contains(LastOut(p).text, "is already in use")
        /\ filepathJoin(<<ckDir[p], "restore.log">>) \in DOMAIN logFile
        /\ logFile[filepathJoin(<<ckDir[p], "restore.log">>)] \in LogTexts
        /\ \E id \in DOMAIN containers :
              /\ containers[id].Name = "/" \o args[p].newName
              /\ containers[id].Status = "created"

\* the engine call that p was waiting for returned a failure in this step
EngineCallFails(p) ==
    /\ pc[p] \in {"ck_predumping", "ck_dumping"}
    /\ calls'[p][Len(calls'[p])].status = "failed"

\* C35: a checkpoint that fails at pre-dump or dump leaves every container.json
\* as it was, the one of an earlier checkpoint in its own directory included:
\* no step of a checkpoint before the metadata save touches a container.json,
\* and the failed engine call ends the checkpoint before that save.
C35_FailedCheckpointKeepsMetadata ==
    [][\A p \in Procs :
         (pc'[p] # pc[p] /\ pc[p] # "idle" /\ ~args[p].restore)
            => /\ pc[p] # "ck_save" => metaFile' = metaFile
               /\ EngineCallFails(p) =>
                     /\ pc'[p] = "done" /\ exit'[p] = 1
                     /\ \A i \in 1..Len(trace'[p]) : trace'[p][i].op # "savemeta"
                     /\ filepathJoin(<<ckDir[p], "container.json">>) \in DOMAIN metaFile
                           => metaFile'[filepathJoin(<<ckDir[p], "container.json">>)] =
                                 metaFile[filepathJoin(<<ckDir[p], "container.json">>)]]_vars

\* a checkpoint failed at its dump in a directory that holds the container.json
\* and the images of an earlier checkpoint
C35_Witness ==
    \E p \in Procs :
        /\ IsCheckpoint(p) /\ pc[p] = "done" /\ exit[p] = 1
        /\ calls[p] # <<>> /\ calls[p][Len(calls[p])].op = "dump"
        /\ calls[p][Len(calls[p])].status = "failed"
        /\ ckDir[p] \in images
        /\ filepathJoin(<<ckDir[p], "container.json">>) \in DOMAIN metaFile
        /\ Contains(metaFile[filepathJoin(<<ckDir[p], "container.json">>)], info[p].Name)

\* container.json of the directory
MetadataIn(dir) == filepathJoin(<<dir, "container.json">>)

\* C36: a checkpoint that fails at pre-dump or dump into a fresh directory
\* leaves the directory in place without a container.json; the directory stays,
\* and its container.json stays absent until a checkpoint saves one; and a
\* restore that finds such a directory fails at metadata loading with nothing
\* created and no engine operation.
C36_FailedCheckpointBlocksRestore ==
    [][/\ \A d \in dirs : d \in dirs'
       /\ \A f \in DOMAIN metaFile' \ DOMAIN metaFile :
             \E p \in Procs : ~args[p].restore /\ pc[p] = "ck_save" /\ f = MetadataIn(ckDir[p])
       /\ \A p \in Procs :
             (~args[p].restore /\ EngineCallFails(p) /\ MetadataIn(ckDir[p]) \notin DOMAIN metaFile)
                => /\ ckDir[p] \in dirs'
                   /\ MetadataIn(ckDir[p]) \notin DOMAIN metaFile'
                   /\ pc'[p] = "done"
       /\ \A p \in Procs :
             (/\ args[p].restore /\ pc[p] = "rs_loadmeta" /\ pc'[p] # pc[p]
              /\ MetadataIn(ckDir[p]) \notin DOMAIN metaFile)
                => /\ pc'[p] = "done" /\ exit'[p] = 1
                   /\ Contains(LastOut(p)'.text, "failed to read metadata")
                   /\ containers' = containers
                   /\ calls'[p] = <<>>
                   /\ \A i \in 1..Len(trace'[p]) : trace'[p][i].op # "create"]_vars

\* a restore failed at metadata loading in a directory that holds nothing but
\* the log of a failed engine call
C36_Witness ==
    \E p \in Procs :
        /\ IsRestore(p) /\ pc[p] = "done" /\ exit[p] = 1
        /\ HasEv(p, "stat", TRUE) /\ HasEv(p, "loadmeta", FALSE)
        /\ ckDir[p] \in dirs /\ ckDir[p] \notin images
        /\ MetadataIn(ckDir[p]) \notin DOMAIN metaFile
        /\ filepathJoin(<<ckDir[p], "dump.log">>) \in DOMAIN logFile
        /\ logFile[filepathJoin(<<ckDir[p], "dump.log">>)] \in LogTexts
        /\ Contains(LastOut(p).text, "failed to read metadata")

\* the statements of an invocation in program order
StatementOrder ==
    <<"idle", "ck_inspect", "ck_mkdir", "ck_open", "ck_predump", "ck_predumping",
      "ck_dump", "ck_dumping", "ck_save", "rs_stat", "rs_loadmeta", "rs_create",
      "rs_facts", "rs_open", "rs_restore", "rs_restoring", "rs_verify", "done">>
Position(at) == CHOOSE i \in 1..Len(StatementOrder) : StatementOrder[i] = at
Underway(p) == pc[p] \notin {"idle", "done"}

\* the lines of the output that report how the invocation ended
IsOutcome(o) ==
    \/ o.fd = "stderr"
    \/ o.text = "Checkpoint successful!\n"
    \/ Verified(o)
    \/ VerificationFailed(o)
Outcomes(p) == {k \in 1..Len(out[p]) : IsOutcome(out[p][k])}

\* C37: every call returning, a checkpoint or restore invocation that is under
\* way ends; each of its steps moves it forward in the program, never back and
\* never to the same statement again; while it is under way it has reported no
\* outcome, and when it has ended it has reported exactly one: a fatal error
\* (exit status 1), or else success, Verified or VerificationFailed (exit
\* status 0), the latter two in restore mode only and success in checkpoint
\* mode only.
C37_InvocationTerminates ==
    /\ [](\A p \in Procs :
            /\ Underway(p) => Outcomes(p) = {} /\ exit[p] = -1
            /\ (pc[p] = "done" /\ trace[p] # <<>>) =>
                 /\ Cardinality(Outcomes(p)) = 1
                 /\ \A k \in Outcomes(p) :
                      /\ (out[p][k].fd = "stderr") <=> (exit[p] = 1)
                      /\ (out[p][k].fd # "stderr") <=> (exit[p] = 0)
                      /\ (out[p][k].text = "Checkpoint successful!\n") => ~args[p].restore
                      /\ (Verified(out[p][k]) \/ VerificationFailed(out[p][k]))
                            => args[p].restore)
    /\ [][\A p \in Procs :
            Underway(p) => Position(pc'[p]) > Position(pc[p])]_vars
    /\ \A p \in Procs : Underway(p) ~> (pc[p] = "done")

\* a restore whose engine call succeeded has ended, with the one outcome
\* VerificationFailed
C37_Witness ==
    \E p \in Procs :
        /\ IsRestore(p) /\ pc[p] = "done" /\ exit[p] = 0
        /\ calls[p] # <<>> /\ calls[p][Len(calls[p])].status = "ok"
        /\ \E k \in Outcomes(p) : Outcomes(p) = {k} /\ VerificationFailed(out[p][k])

====
